---- MODULE Spec2Model ----
(***************************************************************************)
(* A model of the forecast core of cmu-delphi/flu-contest: the target      *)
(* extractor (Targets), the distribution builder (Forecaster.Utils), the   *)
(* Hybrid composer, the forecast assembler (Forecaster.forecast) and the   *)
(* Forecast / ForecastLocation containers with their sanity checks.        *)
(*                                                                         *)
(* Conventions.  wILI values are integers in hundredths of a percent       *)
(* (4.86 is 486).  Python's None is the empty sequence and a present value *)
(* v is <<v>>.  Python lists are sequences; a Python index i is the TLA+   *)
(* position i + 1.  A probability is a numerator over the denominator its  *)
(* distribution carries, so the arithmetic of normalize, smooth and blend  *)
(* is exact.                                                               *)
(***************************************************************************)
EXTENDS Integers, Sequences, FiniteSets, TLC

VARIABLES
  wili,       \* Targets: the trajectory handed to the target extractor
  baseline,   \* Targets: the onset baseline (None for a non-region)
  tcall,      \* Targets: the arguments of the last extraction
  tres,       \* Targets: what the last extraction returned or raised
  dcall,      \* Forecaster.Utils: the arguments of the last distribution build
  dres,       \* Forecaster.Utils: what the last build returned or raised
  hctor,      \* Hybrid: the forecasters given to __init__ and what it raised
  hybrid,     \* Hybrid: test_season, what past and future draw, the callback
  hcall,      \* Hybrid: the arguments of the last _forecast call
  hres,       \* Hybrid: what the last _forecast call returned or raised
  forecasts,          \* Forecast.forecasts: location -> ForecastLocation
  ordered_locations,  \* Forecast.ordered_locations
  sres,       \* what the last Forecast.sanity_check did: "none", "" or the exception
  ops,        \* the number of set_* calls made on the Forecast by hand
  scall,      \* the last set_* call made by hand and the exception it raised
  forecaster, \* Forecaster: the fields __init__ stores
  fcall,      \* Forecaster.forecast: its position, its locals and its exception
  fret,       \* Forecaster.forecast: the Forecast returned to the caller, or None
  covid,      \* EpicastCore: the arguments of the last call and the data it finds
  cres,       \* EpicastCore: what the last call returned or raised
  trainer,    \* a forecaster being trained: its class, statistics, data fetches
  trcall,     \* the last _train or open call, the trainer before it, its exception
  sub,        \* submit(): its arguments, its position and what it has done so far
  db,         \* covid Database: the connection, the cursor and the calls they saw
  erun,       \* Submissions.run_epicast: the Hybrid Epicast run, location by location
  afrun,      \* Archefilter: the filter process and the locations forecast so far
  uq,         \* upload_forecast: the forecast_uploads table and the rows handled
  pipe        \* covid generate_forecast.main: the predictions and the locations forecast

tvars == <<wili, baseline, tcall, tres>>

dvars == <<dcall, dres>>

hvars == <<hctor, hybrid, hcall, hres>>

cvars == <<forecasts, ordered_locations, sres, ops, scall>>

avars == <<forecaster, fcall, fret>>

kvars == <<covid, cres>>

rvars == <<trainer, trcall>>

mvars == <<sub, db, erun, afrun, uq, pipe>>

oldvars == <<tvars, dvars, hvars, cvars, avars, kvars, rvars>>

notSub == <<oldvars, db, erun, afrun, uq, pipe>>

notDb == <<oldvars, sub, erun, afrun, uq, pipe>>

notErun == <<oldvars, sub, db, afrun, uq, pipe>>

notAfrun == <<oldvars, sub, db, erun, uq, pipe>>

notUq == <<oldvars, sub, db, erun, afrun, pipe>>

notPipe == <<oldvars, sub, db, erun, afrun, uq>>

notTrainer == <<tvars, dvars, hvars, cvars, avars, kvars, mvars>>

vars == <<tvars, dvars, hvars, cvars, avars, kvars, rvars, mvars>>

notTargets == <<dvars, hvars, cvars, avars, kvars, rvars, mvars>>

notDist == <<tvars, hvars, cvars, avars, kvars, rvars, mvars>>

notHybrid == <<tvars, dvars, cvars, avars, kvars, rvars, mvars>>

notContainer == <<tvars, dvars, hvars, avars, kvars, rvars, mvars>>

notForecaster == <<tvars, dvars, hvars, sres, ops, scall, kvars, rvars, mvars>>

notCovid == <<tvars, dvars, hvars, cvars, avars, rvars, mvars>>

----------------------------------------------------------------------------
(* Python values *)

None == <<>>

Some(v) == <<v>>

IsNone(x) == x = <<>>

Val(x) == x[1]

Range(s) == {s[i] : i \in DOMAIN s}

RECURSIVE SumSeq(_)
SumSeq(s) == IF s = <<>> THEN 0 ELSE Head(s) + SumSeq(Tail(s))

MaxOf(S) == CHOOSE m \in S : \A x \in S : x <= m

MinOf(S) == CHOOSE m \in S : \A x \in S : m <= x

Min2(a, b) == IF a <= b THEN a ELSE b

Max2(a, b) == IF a >= b THEN a ELSE b

(* statistics.median_low of a non-empty list: the element of rank          *)
(* (n + 1) div 2 of the sorted data.                                       *)
MedianHighMutant(s) ==
  LET n == Len(s)
      k == (n \div 2) + 1
  IN  CHOOSE v \in Range(s) :
        /\ Cardinality({i \in DOMAIN s : s[i] < v}) < k
        /\ Cardinality({i \in DOMAIN s : s[i] <= v}) >= k

median_low(s) ==
  LET n == Len(s)
      k == (n + 1) \div 2
  IN  CHOOSE v \in Range(s) :
        /\ Cardinality({i \in DOMAIN s : s[i] < v}) < k
        /\ Cardinality({i \in DOMAIN s : s[i] <= v}) >= k

----------------------------------------------------------------------------
(* Bounds and input domains of the target extractor *)

MaxLen == 5

MaxTail == 3

PadLen == 24

\* 0.00, 4.85, 4.86, 4.94 and 5.00
WiliValues == {0, 485, 486, 494, 500}

\* the halfway values of WiliValues that Python's round(w, 1) rounds up
\* (round(4.95, 1) is 5.0, round(4.85, 1) is 4.8: the nearest double decides)
TieUp == {495}

Baselines == {490}

RuleSeasons == {2015, 2016}

RECURSIVE SeqsUpTo(_, _)
SeqsUpTo(S, n) ==
  IF n = 0 THEN {<<>>}
  ELSE LET shorter == SeqsUpTo(S, n - 1)
       IN  shorter \cup {Append(s, v) : s \in {t \in shorter : Len(t) = n - 1}, v \in S}

\* the two trajectories the specification's tests name
ExampleTrajectories ==
  { <<0, 0, 0, 500, 500, 500, 0>>, <<100, 300, 300, 200>> }

\* a long series: PadLen equal weeks, then a free tail across the week-26 cutoff
PaddedSeries ==
  { [i \in 1..PadLen |-> b] \o t : b \in {0, 494}, t \in SeqsUpTo({0, 486, 500}, MaxTail) }

Trajectories == SeqsUpTo(WiliValues, MaxLen) \cup ExampleTrajectories \cup PaddedSeries

----------------------------------------------------------------------------
(* Targets (src/forecasters/fc_abstract.py, src/utils/forecast_io.py) *)

\* round(w, 1), in hundredths
Round1(w) ==
  LET r == w % 10
      f == w - r
  IN  IF r < 5 THEN f
      ELSE IF r > 5 THEN f + 10
      ELSE IF w \in TieUp THEN f + 10 ELSE f

\* the loop of get_onset from index i (0-based) with weeks_above consecutive hits
RECURSIVE OnsetLoop(_, _, _, _)
OnsetLoop(w, b, i, weeks_above) ==
  IF i >= Len(w) THEN None
  ELSE IF Round1(w[i + 1]) >= b
       THEN IF weeks_above + 1 >= 3 THEN Some(i - 2)
            ELSE OnsetLoop(w, b, i + 1, weeks_above + 1)
       ELSE OnsetLoop(w, b, i + 1, 0)

RECURSIVE OnsetLoopEndMutant(_, _, _, _)
OnsetLoopEndMutant(w, b, i, weeks_above) ==
  IF i >= Len(w) THEN None
  ELSE IF Round1(w[i + 1]) >= b
       THEN IF weeks_above + 1 >= 3 THEN Some(i)
            ELSE OnsetLoopEndMutant(w, b, i + 1, weeks_above + 1)
       ELSE OnsetLoopEndMutant(w, b, i + 1, 0)

GetOnsetEndMutant(w, b) ==
  IF IsNone(b) THEN None ELSE OnsetLoopEndMutant(w, Val(b), 0, 0)

get_onset(w, b) ==
  IF IsNone(b) THEN None ELSE OnsetLoop(w, Val(b), 0, 0)

get_peak(w) == MaxOf(Range(w))

PeakIndices(w) ==
  LET peak == Round1(get_peak(w))
  IN  SelectSeq([i \in 1..Len(w) |-> i - 1], LAMBDA i : Round1(w[i + 1]) = peak)

GetPeakweekHighMutant(w, b, rule_season) ==
  IF /\ ~IsNone(rule_season)
     /\ Val(rule_season) < 2016
     /\ IsNone(get_onset(w, b))
  THEN None
  ELSE Some(MedianHighMutant(PeakIndices(w)))

GetPeakweekRuleMutant(w, b, rule_season) ==
  IF /\ ~IsNone(rule_season)
     /\ Val(rule_season) <= 2016
     /\ IsNone(get_onset(w, b))
  THEN None
  ELSE Some(median_low(PeakIndices(w)))

get_peakweek(w, b, rule_season) ==
  IF /\ ~IsNone(rule_season)
     /\ Val(rule_season) < 2016
     /\ IsNone(get_onset(w, b))
  THEN None
  ELSE Some(median_low(PeakIndices(w)))

get_lookahead(w, current_index, ahead) ==
  LET index == Min2(current_index + ahead, Len(w) - 1)
  IN  w[index + 1]

\* max(wili) of an empty list raises ValueError before any target is returned
get_all_targets(w, b, current_index, rule_season) ==
  IF w = <<>> THEN [raised |-> "ValueError"]
  ELSE [ raised   |-> "",
         onset    |-> get_onset(w, b),
         peakweek |-> get_peakweek(w, b, rule_season),
         peak     |-> get_peak(w),
         x        |-> [k \in 1..4 |-> get_lookahead(w, current_index, k)] ]

\* forecast_io.py's copy of Targets has no None guard in get_onset: the first
\* comparison w >= None raises TypeError
io_get_all_targets(w, b, current_index, rule_season) ==
  IF w = <<>> THEN [raised |-> "ValueError"]
  ELSE IF IsNone(b) THEN [raised |-> "TypeError"]
  ELSE get_all_targets(w, b, current_index, rule_season)

----------------------------------------------------------------------------
(* Targets of the COVID pipeline (src/covid/targets.py) *)

CovidWindow == 26

Prefix(s, n) == SubSeq(s, 1, Min2(n, Len(s)))

\* np.argmax: the first index of the maximum
covid_get_peak_week(series) ==
  LET head == Prefix(series, CovidWindow)
      m == MaxOf(Range(head))
  IN  MinOf({i \in DOMAIN head : head[i] = m}) - 1

covid_get_peak_wili(series) == MaxOf(Range(Prefix(series, CovidWindow)))

\* series[current_week + n]: no clamp, so an index past the end raises
covid_get_n_week_wili(series, current_week, n) ==
  IF current_week + n >= Len(series) THEN [raised |-> "IndexError"]
  ELSE [raised |-> "", value |-> series[current_week + n + 1]]

covid_targets(series, current_week) ==
  IF series = <<>> THEN [raised |-> "ValueError"]
  ELSE [ raised    |-> "",
         peak_week |-> covid_get_peak_week(series),
         peak_wili |-> covid_get_peak_wili(series),
         nwk       |-> [n \in 1..6 |-> covid_get_n_week_wili(series, current_week, n)] ]

----------------------------------------------------------------------------
(* The target extractor as a state machine *)

NoCall == [op |-> "none"]

TargetsIdle ==
  /\ wili = <<>>
  /\ baseline = None
  /\ tcall = NoCall
  /\ tres = [raised |-> "none"]

DistIdle ==
  /\ dcall = NoCall
  /\ dres = [raised |-> "none"]

\* no Hybrid object
NoHybrid ==
  [ built |-> FALSE, test_season |-> 0, locations |-> <<>>, past |-> <<>>,
    future |-> <<>>, has_callback |-> FALSE, callbacks |-> 0 ]

TrainerIdle ==
  /\ trainer = [kind |-> "none"]
  /\ trcall = NoCall

SubIdle == sub = NoCall

DbIdle == db = NoCall

ErunIdle == erun = NoCall

AfrunIdle == afrun = NoCall

UqIdle == uq = NoCall

PipeIdle == pipe = NoCall

MoreIdle ==
  /\ SubIdle
  /\ DbIdle
  /\ ErunIdle
  /\ AfrunIdle
  /\ UqIdle
  /\ PipeIdle

HybridIdle ==
  /\ hctor = NoCall
  /\ hybrid = NoHybrid
  /\ hcall = NoCall
  /\ hres = [raised |-> "none"]

ContainerIdle ==
  /\ forecasts = <<>>
  /\ ordered_locations = <<>>
  /\ sres = "none"
  /\ ops = 0
  /\ scall = NoCall

CovidIdle ==
  /\ covid = NoCall
  /\ cres = [raised |-> "none"]

ForecasterIdle ==
  /\ forecaster = [test_season |-> 0, locations |-> <<>>]
  /\ fcall = [pc |-> "idle"]
  /\ fret = <<>>

InitTargets ==
  /\ ContainerIdle
  /\ ForecasterIdle
  /\ CovidIdle
  /\ TrainerIdle
  /\ MoreIdle
  /\ wili \in Trajectories
  /\ baseline \in {None} \cup {Some(b) : b \in Baselines}
  /\ tcall = NoCall
  /\ tres = [raised |-> "none"]
  /\ DistIdle
  /\ HybridIdle

\* the assembler's call (fc_abstract.py, forecast): every flu target of one curve
GetAllTargets ==
  /\ tcall.op = "none"
  /\ \E ci \in {0, 1, Len(wili) - 2, Len(wili) - 1} \cap Nat,
        rs \in {None} \cup {Some(s) : s \in RuleSeasons} :
       /\ tcall' = [op |-> "flu", current_index |-> ci, rule_season |-> rs]
       /\ tres' = get_all_targets(wili, baseline, ci, rs)
  /\ UNCHANGED <<wili, baseline>>
  /\ UNCHANGED notTargets

\* the submission loader's call (forecast_io.py, Targets.get_all_targets)
IoGetAllTargets ==
  /\ tcall.op = "none"
  /\ \E ci \in {0, Len(wili) - 1} \cap Nat,
        rs \in {None} \cup {Some(s) : s \in RuleSeasons} :
       /\ tcall' = [op |-> "io", current_index |-> ci, rule_season |-> rs]
       /\ tres' = io_get_all_targets(wili, baseline, ci, rs)
  /\ UNCHANGED <<wili, baseline>>
  /\ UNCHANGED notTargets

\* EpicastCore.forecast's calls: every COVID target of one sample
CovidTargets ==
  /\ tcall.op = "none"
  /\ \E cw \in {0, Len(wili) - 7, Len(wili) - 2, Len(wili) - 1} \cap Nat :
       /\ tcall' = [op |-> "covid", current_index |-> cw, rule_season |-> None]
       /\ tres' = covid_targets(wili, cw)
  /\ UNCHANGED <<wili, baseline>>
  /\ UNCHANGED notTargets

NextTargets == GetAllTargets \/ IoGetAllTargets \/ CovidTargets

SpecTargets == InitTargets /\ [][NextTargets]_vars

FluReturned == tcall.op \in {"flu", "io"} /\ tres.raised = ""

\* the 0-based start indices of the runs of 3 weeks that, rounded, reach b
OnsetRuns(w, b) ==
  {i \in 0..(Len(w) - 3) : \A k \in 1..3 : Round1(w[i + k]) >= b}

\* the 0-based indices whose rounded value is the rounded maximum
PeakSet(w) ==
  {i \in 0..(Len(w) - 1) : \A j \in 1..Len(w) : Round1(w[i + 1]) >= Round1(w[j])}

(* C6: get_onset returns None when no 3 consecutive rounded values reach   *)
(* the baseline (or there is no baseline), and otherwise the index of the  *)
(* first week of the earliest such run; [0,0,0,5,5,5,0] with baseline 4.9  *)
(* gives 3.                                                                *)
C6_OnsetIsWindowStart ==
  FluReturned =>
    /\ IsNone(baseline) => tres.onset = None
    /\ ~IsNone(baseline) =>
         LET runs == OnsetRuns(wili, Val(baseline))
         IN  tres.onset = IF runs = {} THEN None ELSE Some(MinOf(runs))
    /\ (wili = <<0, 0, 0, 500, 500, 500, 0>> /\ baseline = Some(490))
         => tres.onset = Some(3)

C6_Witness ==
  /\ FluReturned
  /\ wili = <<0, 0, 0, 500, 500, 500, 0>>
  /\ baseline = Some(490)
  /\ tres.onset = Some(3)

(* C7: when get_peakweek returns an index it is the median-low of the      *)
(* indices whose rounded value equals the rounded peak, that index holds   *)
(* the rounded peak, and [1,3,3,2] gives 1.                                *)
C7_PeakweekIsMedianLow ==
  (FluReturned /\ ~IsNone(tres.peakweek)) =>
    LET S == PeakSet(wili)
        pw == Val(tres.peakweek)
    IN  /\ pw \in S
        /\ Cardinality({i \in S : i < pw}) = (Cardinality(S) - 1) \div 2
        /\ Round1(wili[pw + 1]) = Round1(MaxOf(Range(wili)))
        /\ wili = <<100, 300, 300, 200>> => pw = 1

C7_Witness ==
  /\ FluReturned
  /\ wili = <<100, 300, 300, 200>>
  /\ tres.peakweek = Some(1)

(* C8: get_peakweek returns None exactly when the rule season is before    *)
(* 2016 and the trajectory has no onset; otherwise it returns an index of  *)
(* the (non-empty) trajectory.                                             *)
C8_PeakweekNoneIffOldRuleNoOnset ==
  FluReturned =>
    /\ IsNone(tres.peakweek) <=>
         /\ ~IsNone(tcall.rule_season)
         /\ Val(tcall.rule_season) < 2016
         /\ IsNone(tres.onset)
    /\ ~IsNone(tres.peakweek) => Val(tres.peakweek) \in 0..(Len(wili) - 1)

C8_Witness ==
  /\ FluReturned
  /\ tcall.rule_season = Some(2015)
  /\ IsNone(tres.onset)
  /\ IsNone(tres.peakweek)

(* C9: the peak height is the maximum over the pre-cutoff window only (the *)
(* first CovidWindow weeks), for every trajectory of either pipeline.      *)
C9_PeakWithinWindow ==
  /\ FluReturned => tres.peak = MaxOf(Range(Prefix(wili, CovidWindow)))
  /\ (tcall.op = "covid" /\ tres.raised = "") =>
       tres.peak_wili = MaxOf(Range(Prefix(wili, CovidWindow)))

(* C10: the k-week-ahead target is the value at current_index + k, clamped *)
(* to the last index when that overruns, and it never fails, in either     *)
(* pipeline.                                                               *)
C10_LookaheadClamped ==
  /\ FluReturned =>
       \A k \in 1..4 :
         tres.x[k] = wili[Min2(tcall.current_index + k, Len(wili) - 1) + 1]
  /\ (tcall.op = "covid" /\ tres.raised = "") =>
       \A n \in 1..6 :
         /\ tres.nwk[n].raised = ""
         /\ tres.nwk[n].value = wili[Min2(tcall.current_index + n, Len(wili) - 1) + 1]

----------------------------------------------------------------------------
(* Epiweek arithmetic (delphi.utils.epiweek, imported as flu) *)

\* MMWR years with 53 weeks among the seasons the forecasters cover
WeeksInYear(y) == IF y \in {2008, 2014, 2020} THEN 53 ELSE 52

join_epiweek(year, week) == year * 100 + week

RECURSIVE add_epiweeks(_, _)
add_epiweeks(ew, n) ==
  IF n = 0 THEN ew
  ELSE IF ew % 100 < WeeksInYear(ew \div 100)
       THEN add_epiweeks(ew + 1, n - 1)
       ELSE add_epiweeks(join_epiweek((ew \div 100) + 1, 1), n - 1)

\* the number of weeks from ew1 forward to ew2 (negative when ew2 is earlier)
RECURSIVE delta_epiweeks(_, _)
delta_epiweeks(ew1, ew2) ==
  IF ew1 = ew2 THEN 0
  ELSE IF ew1 < ew2 THEN 1 + delta_epiweeks(add_epiweeks(ew1, 1), ew2)
       ELSE 0 - delta_epiweeks(ew2, ew1)

----------------------------------------------------------------------------
(* Forecaster.Utils: the distribution builder (fc_abstract.py) *)

MaxBins == 3

MaxSamples == 3

\* a uniform weight is WeightNum / WeightDen
WeightDen == 10

\* the weights Forecaster.forecast lets through: it rejects only weight > 1
WeightNums == {0, 1, WeightDen \div 2, WeightDen}

\* Forecast.ili_bin_size, 0.1, in hundredths
IliBinSize == 10

\* the normal(0, 1) kernel of smooth, prob(-5) .. prob(5), in millionths:
\* prob(5) = 3.4e-6 is the first weight at or below 1e-5, so num = 5 and
\* window = 11, and the weights sum to a little less than 1
Kernel == <<3, 229, 5977, 60598, 241730, 382925, 241730, 60598, 5977, 229, 3>>

KernelDen == 10 ^ 6

\* ForecastLocation.approx_one: abs(1 - num / den) < 1e-5
approx_one(num, den) ==
  LET d == IF den >= num THEN den - num ELSE num - den
  IN  d <= (den - 1) \div 100000

Count(s, v) == Cardinality({i \in DOMAIN s : s[i] = v})

KthSmallest(s, k) ==
  CHOOSE v \in Range(s) :
    /\ Cardinality({i \in DOMAIN s : s[i] < v}) < k
    /\ Cardinality({i \in DOMAIN s : s[i] <= v}) >= k

\* np.array(dist) / sum(dist): 0 / 0 is NaN in every entry, with a warning
normalize(counts) ==
  IF SumSeq(counts) = 0
  THEN [nan |-> TRUE, num |-> counts, den |-> 1]
  ELSE [nan |-> FALSE, num |-> counts, den |-> SumSeq(counts)]

\* np.convolve(curve, kernel, 'full')
Convolve(c, k) ==
  [p \in 1..(Len(c) + Len(k) - 1) |->
     SumSeq([m \in 1..Len(c) |->
               IF (p - m + 1) \in 1..Len(k) THEN c[m] * k[p - m + 1] ELSE 0])]

\* smooth without the two folds: the spill past each end is cut off
SmoothDropSpillMutant(d) ==
  IF d.nan THEN d
  ELSE LET temp == Convolve(d.num, Kernel)
           i == Len(Kernel) \div 2
       IN  [ nan |-> FALSE, num |-> SubSeq(temp, i + 1, Len(temp) - i),
             den |-> d.den * KernelDen ]

\* smooth(curve, 1): convolve, fold the spill into temp[i] and then temp[j]
smooth(d) ==
  IF d.nan THEN d
  ELSE LET window == Len(Kernel)
           temp == Convolve(d.num, Kernel)
           n == Len(temp)
           i == window \div 2
           temp1 == [temp EXCEPT ![i + 1] = SumSeq(SubSeq(temp, 1, i + 1))]
           temp2 == [temp1 EXCEPT ![n - i] = SumSeq(SubSeq(temp1, n - i, n))]
       IN  [nan |-> FALSE, num |-> SubSeq(temp2, i + 1, n - i), den |-> d.den * KernelDen]

BlendNoUniformMutant(d, wn, wd) ==
  IF d.nan THEN d
  ELSE LET L == Len(d.num)
       IN  [ nan |-> FALSE,
             num |-> [i \in 1..L |-> d.num[i] * (wd - wn) * L],
             den |-> d.den * wd * L ]

\* uniform * weight + dist * (1 - weight), uniform = 1 / len(dist), weight = wn / wd
blend(d, wn, wd) ==
  IF d.nan THEN d
  ELSE LET L == Len(d.num)
       IN  [ nan |-> FALSE,
             num |-> [i \in 1..L |-> wn * d.den + d.num[i] * (wd - wn) * L],
             den |-> d.den * wd * L ]

\* get_week_forecast without the check on None samples
GetWeekForecastNoCheckMutant(first_epiweek, num_bins, indices, wn, wd, smooth_bw, allow_none) ==
  LET dist == [i \in 1..num_bins |-> Count(indices, Some(i - 1))]
      none == Count(indices, None)
      extra == IF allow_none THEN <<none>> ELSE <<>>
      t0 == normalize(dist \o extra)
      t1 == IF smooth_bw > 0 THEN smooth(t0) ELSE t0
      t2 == blend(t1, wn, wd)
      some == SelectSeq(indices, LAMBDA x : ~IsNone(x))
      possibilities ==
        IF some = <<>> THEN <<0>> ELSE [i \in 1..Len(some) |-> Val(some[i])]
  IN  [ raised |-> "",
        nan    |-> t2.nan,
        dist   |-> SubSeq(t2.num, 1, num_bins),
        none   |-> IF allow_none THEN Some(t2.num[num_bins + 1]) ELSE None,
        den    |-> t2.den,
        point  |-> add_epiweeks(first_epiweek, median_low(possibilities)) ]

get_week_forecast(first_epiweek, num_bins, indices, wn, wd, smooth_bw, allow_none) ==
  LET dist == [i \in 1..num_bins |-> Count(indices, Some(i - 1))]
      none == Count(indices, None)
  IN  IF none > 0 /\ ~allow_none THEN [raised |-> "Exception"]
      ELSE
        LET extra == IF allow_none THEN <<none>> ELSE <<>>
            t0 == normalize(dist \o extra)
            t1 == IF smooth_bw > 0 THEN smooth(t0) ELSE t0
            t2 == blend(t1, wn, wd)
            some == SelectSeq(indices, LAMBDA x : ~IsNone(x))
            possibilities ==
              IF some = <<>> THEN <<0>> ELSE [i \in 1..Len(some) |-> Val(some[i])]
        IN  [ raised |-> "",
              nan    |-> t2.nan,
              dist   |-> SubSeq(t2.num, 1, num_bins),
              none   |-> IF allow_none THEN Some(t2.num[num_bins + 1]) ELSE None,
              den    |-> t2.den,
              point  |-> add_epiweeks(first_epiweek, median_low(possibilities)) ]

\* np.median(wili), doubled so that the mean of two middle samples is an integer;
\* the median of no samples is NaN
Median2(s) ==
  IF s = <<>> THEN [nan |-> TRUE, x2 |-> 0]
  ELSE [ nan |-> FALSE,
         x2  |-> KthSmallest(s, (Len(s) + 1) \div 2) + KthSmallest(s, (Len(s) \div 2) + 1) ]

\* bin i is [i * bin_size, (i + 1) * bin_size), the last one unbounded
get_wili_forecast(bin_size, num_bins, samples, wn, wd, smooth_bw) ==
  LET InBin(w, i) ==
        /\ (i - 1) * bin_size <= w
        /\ (i = num_bins \/ w < i * bin_size)
      dist == [i \in 1..num_bins |->
                 Cardinality({k \in DOMAIN samples : InBin(samples[k], i)})]
      t0 == normalize(dist)
      t1 == IF smooth_bw > 0 THEN smooth(t0) ELSE t0
      t2 == blend(t1, wn, wd)
  IN  [ raised |-> "",
        nan    |-> t2.nan,
        dist   |-> t2.num,
        none   |-> None,
        den    |-> t2.den,
        point  |-> Median2(samples) ]

----------------------------------------------------------------------------
(* The distribution builder as a state machine *)

WeekSamples(num_bins) == {None} \cup {Some(i) : i \in 0..num_bins}

WiliSamples == {0, 9, 10, 25, 1000}

InitDist ==
  /\ TargetsIdle
  /\ ContainerIdle
  /\ ForecasterIdle
  /\ CovidIdle
  /\ TrainerIdle
  /\ MoreIdle
  /\ HybridIdle
  /\ dcall \in [ op : {"none"}, num_bins : 1..MaxBins, samples : {<<>>},
                 uniform_weight : WeightNums, smooth_bw : {0, 1} ]
  /\ dres = [raised |-> "none"]

GetWeekForecast ==
  /\ dcall.op = "none"
  /\ \E indices \in SeqsUpTo(WeekSamples(dcall.num_bins), MaxSamples),
        allow_none \in BOOLEAN :
       /\ dcall' = [dcall EXCEPT !.op = IF allow_none THEN "week_none" ELSE "week",
                                 !.samples = indices]
       /\ dres' = get_week_forecast(join_epiweek(2018, 40), dcall.num_bins, indices,
                                    dcall.uniform_weight, WeightDen, dcall.smooth_bw,
                                    allow_none)
  /\ UNCHANGED notDist

GetWiliForecast ==
  /\ dcall.op = "none"
  /\ \E samples \in SeqsUpTo(WiliSamples, MaxSamples) :
       /\ dcall' = [dcall EXCEPT !.op = "wili", !.samples = samples]
       /\ dres' = get_wili_forecast(IliBinSize, dcall.num_bins, samples,
                                    dcall.uniform_weight, WeightDen, dcall.smooth_bw)
  /\ UNCHANGED notDist

NextDist == GetWeekForecast \/ GetWiliForecast

SpecDist == InitDist /\ [][NextDist]_vars

DistReturned == dcall.op # "none" /\ dres.raised = ""

NoneNum == IF IsNone(dres.none) THEN 0 ELSE Val(dres.none)

\* the number of bins blend spread the uniform weight over
BlendedBins == dcall.num_bins + (IF dcall.op = "week_none" THEN 1 ELSE 0)

(* C1: every returned distribution sums, with its 'none' probability, to 1 *)
(* within 1e-5 and every bin probability is strictly greater than 0, for   *)
(* any samples, any number of bins and any weight the forecaster accepts   *)
(* (stated here for the builds that counted at least one sample).          *)
C1_DistSumsToOneAndPositive ==
  (DistReturned /\ ~dres.nan) =>
    /\ approx_one(SumSeq(dres.dist) + NoneNum, dres.den)
    /\ \A i \in DOMAIN dres.dist : dres.dist[i] > 0

----------------------------------------------------------------------------
(* Hybrid (src/forecasters/fc_hybrid.py) *)

MaxCurves == 2

\* Python's p[:i] and f[i:] for any integer i
SliceTo(p, i) ==
  LET n == IF i >= 0 THEN Min2(i, Len(p)) ELSE Max2(Len(p) + i, 0)
  IN  SubSeq(p, 1, n)

SliceFrom(f, i) ==
  LET n == IF i >= 0 THEN Min2(i, Len(f)) ELSE Max2(Len(f) + i, 0)
  IN  SubSeq(f, n + 1, Len(f))

Splice(p, f, i) == SliceTo(p, i) \o SliceFrom(f, i)

\* the epiweek _forecast splices at: line 46 overwrites the argument
HybridEpiweek(epiweek) == 201841

\* Hybrid._forecast; P and F are what past._forecast and future._forecast drew
Hybrid_forecast(h, region, epiweek) ==
  LET ew == HybridEpiweek(epiweek)
      P == h.past
      F == h.future
      i == delta_epiweeks(join_epiweek(h.test_season, 40), ew)
      n == Max2(Len(P), Len(F))
  IN  IF n > 0 /\ (Len(P) = 0 \/ Len(F) = 0)
      THEN [raised |-> "ZeroDivisionError"]
      ELSE [ raised |-> "",
             curves |-> [j \in 1..n |->
                           Splice(P[((j - 1) % Len(P)) + 1], F[((j - 1) % Len(F)) + 1], i)] ]

PastCatalog == { <<1, 1, 1>>, <<1, 2, 3, 4, 5, 6>>, <<2, 2, 2, 2, 2, 2>> }

FutureCatalog == { <<9, 9, 9, 9, 9, 9>>, <<7, 8, 9, 7, 8, 9>>, <<8, 8, 8, 8, 8, 8>> }

IssueEpiweeks == {201840, 201841, 201842, 201843}

HybridSeasons == {2017, 2018}

\* Hybrid.__init__ without the test on the seasons
HybridInitNoCheckMutant(past, future) ==
  [ raised |-> "",
    obj |-> [ built |-> TRUE, test_season |-> past.test_season,
              locations |-> past.locations, past |-> past.curves,
              future |-> future.curves, has_callback |-> FALSE, callbacks |-> 0 ] ]

\* Hybrid.__init__: the exception it raises, or "" and the object it builds;
\* past.curves and future.curves stand for what their _forecast will draw
Hybrid_init(past, future) ==
  IF past.test_season # future.test_season
  THEN [raised |-> "past and future trained on different seasons", obj |-> NoHybrid]
  ELSE [ raised |-> "",
         obj |-> [ built |-> TRUE, test_season |-> past.test_season,
                   locations |-> past.locations, past |-> past.curves,
                   future |-> future.curves, has_callback |-> FALSE, callbacks |-> 0 ] ]

InitHybrid ==
  /\ TargetsIdle
  /\ ContainerIdle
  /\ ForecasterIdle
  /\ CovidIdle
  /\ TrainerIdle
  /\ MoreIdle
  /\ DistIdle
  /\ hctor \in [ past : [ test_season : HybridSeasons,
                          locations : {<<"nat">>, <<"nat", "pa">>},
                          curves : SeqsUpTo(PastCatalog, MaxCurves) ],
                 future : [ test_season : HybridSeasons,
                            locations : {<<"nat">>},
                            curves : SeqsUpTo(FutureCatalog, MaxCurves) ],
                 raised : {"none"} ]
  /\ hybrid = NoHybrid
  /\ hcall = NoCall
  /\ hres = [raised |-> "none"]

\* forecaster = Hybrid(name, past, future, forecast_type)
HybridConstruct ==
  /\ hctor.raised = "none"
  /\ \E r \in { Hybrid_init(hctor.past, hctor.future) } :
       /\ hctor' = [hctor EXCEPT !.raised = r.raised]
       /\ hybrid' = r.obj
  /\ UNCHANGED <<hcall, hres>>
  /\ UNCHANGED notHybrid

\* forecaster._callback = update_epicast_df
HybridSetCallback ==
  /\ hybrid.built
  /\ ~hybrid.has_callback
  /\ hcall.op = "none"
  /\ hybrid' = [hybrid EXCEPT !.has_callback = TRUE]
  /\ UNCHANGED <<hctor, hcall, hres>>
  /\ UNCHANGED notHybrid

HybridForecast ==
  /\ hybrid.built
  /\ hcall.op = "none"
  /\ \E epiweek \in IssueEpiweeks :
       LET r == Hybrid_forecast(hybrid, "nat", epiweek)
       IN  /\ hcall' = [op |-> "_forecast", region |-> "nat", epiweek |-> epiweek]
           /\ hres' = r
           /\ hybrid' = [hybrid EXCEPT !.callbacks =
                           IF r.raised = "" /\ hybrid.has_callback THEN @ + 1 ELSE @]
  /\ UNCHANGED hctor
  /\ UNCHANGED notHybrid

NextHybrid ==
  \/ HybridConstruct
  \/ HybridSetCallback
  \/ HybridForecast

SpecHybrid == InitHybrid /\ [][NextHybrid]_vars

(* C5: Hybrid._forecast(region, issue_epiweek) returns max(|P|,|F|) curves *)
(* and curve j is P[j mod |P|] before the index of issue_epiweek in the    *)
(* season and F[j mod |F|] from that index on; a past curve [1,1,1] and a  *)
(* future curve [9,9,9,9,9,9] with boundary index 3 give [1,1,1,9,9,9].    *)
C5_SpliceAtIssueEpiweek ==
  (hcall.op = "_forecast" /\ Len(hybrid.past) > 0 /\ Len(hybrid.future) > 0) =>
    LET P == hybrid.past
        F == hybrid.future
        b == delta_epiweeks(join_epiweek(hybrid.test_season, 40), hcall.epiweek)
    IN  /\ hres.raised = ""
        /\ Len(hres.curves) = Max2(Len(P), Len(F))
        /\ \A j \in 1..Len(hres.curves) :
             LET pj == P[((j - 1) % Len(P)) + 1]
                 fj == F[((j - 1) % Len(F)) + 1]
                 c == hres.curves[j]
             IN  /\ Len(c) = Min2(b, Len(pj)) + (Len(fj) - Min2(b, Len(fj)))
                 /\ \A k \in 1..Len(c) :
                      c[k] = IF k <= b THEN pj[k] ELSE fj[k]
        /\ ( /\ P = << <<1, 1, 1>> >>
             /\ F = << <<9, 9, 9, 9, 9, 9>> >>
             /\ b = 3 ) => hres.curves = << <<1, 1, 1, 9, 9, 9>> >>

----------------------------------------------------------------------------
(* ForecastLocation (src/utils/forecast_location.py) *)

\* Forecast.season_length and Forecast.num_ili_bins: 33 and 131 (601 for
\* hospitalization) in forecast.py, scaled down here
season_length == 3

num_ili_bins == 3

Regions == {"nat"}

Locs == {"nat", "pa"}

is_region(location) == location \in Regions

WeekTargets == {"onset", "peakweek"}

IliTargets == {"peak", "x1", "x2", "x3", "x4"}

\* a target none of whose values has been set: 'dist' is [None] * size
new_target(size) ==
  [set |-> FALSE, dist |-> [i \in 1..size |-> 0], den |-> 1, none |-> None, point |-> None]

ForecastLocationInitOnsetMutant(location) ==
  [ location |-> location,
    data |-> [t \in IliTargets \cup {"peakweek", "onset"} |->
                new_target(IF t \in WeekTargets THEN season_length ELSE num_ili_bins)] ]

ForecastLocation_init(location) ==
  [ location |-> location,
    data |-> [t \in IliTargets \cup {"peakweek"}
                     \cup (IF is_region(location) THEN {"onset"} ELSE {}) |->
                new_target(IF t \in WeekTargets THEN season_length ELSE num_ili_bins)] ]

has_onset(fl) == "onset" \in DOMAIN fl.data

NumOr0(x) == IF IsNone(x) THEN 0 ELSE Val(x)

\* the exception _check_week_values raises for (dist, none, point), or ""
check_week_values(d) ==
  IF Len(d.dist) # season_length THEN "distribution length is wrong"
  ELSE IF d.nan \/ ~approx_one(SumSeq(d.dist) + NumOr0(d.none), d.den)
       THEN "distribution (including none) must sum to 1"
  ELSE IF \/ \E i \in DOMAIN d.dist : d.dist[i] < 0
          \/ NumOr0(d.none) < 0
          \/ d.point < 0
       THEN "value is negative"
  ELSE IF d.point % 100 < 1 \/ d.point % 100 >= 53
       THEN "weekly point prediction not in [1, 53)"
  ELSE ""

\* the exception _check_ili_values raises for (dist, point), or ""
check_ili_values(d) ==
  IF Len(d.dist) # num_ili_bins THEN "distribution length is wrong"
  ELSE IF d.nan \/ ~approx_one(SumSeq(d.dist), d.den) THEN "distribution must sum to 1"
  ELSE IF \/ \E i \in DOMAIN d.dist : d.dist[i] < 0
          \/ (~d.point.nan /\ d.point.x2 < 0)
       THEN "value is negative"
  ELSE ""

\* _set_week_target: 'none' is stored for onset only, the point as point % 100
\* _set_week_target that writes the values before it checks them
SetWeekTargetWriteFirstMutant(fl, target, d) ==
  [ fl |-> [fl EXCEPT !.data[target] =
              [ set   |-> TRUE,
                dist  |-> d.dist,
                den   |-> d.den,
                none  |-> IF target = "onset" THEN d.none ELSE None,
                point |-> Some(d.point % 100) ]],
    raised |-> check_week_values(d) ]

set_week_target(fl, target, d) ==
  LET e == check_week_values(d)
  IN  IF e # "" THEN [fl |-> fl, raised |-> e]
      ELSE [ fl |-> [fl EXCEPT !.data[target] =
                       [ set   |-> TRUE,
                         dist  |-> d.dist,
                         den   |-> d.den,
                         none  |-> IF target = "onset" THEN d.none ELSE None,
                         point |-> Some(d.point % 100) ]],
             raised |-> "" ]

set_ili_target(fl, target, d) ==
  LET e == check_ili_values(d)
  IN  IF e # "" THEN [fl |-> fl, raised |-> e]
      ELSE [ fl |-> [fl EXCEPT !.data[target] =
                       [ set   |-> TRUE,
                         dist  |-> d.dist,
                         den   |-> d.den,
                         none  |-> None,
                         point |-> Some(d.point.x2) ]],
             raised |-> "" ]

set_onset(fl, d) ==
  IF ~has_onset(fl) THEN [fl |-> fl, raised |-> "onset is not a target"]
  ELSE set_week_target(fl, "onset", d)

\* get_onset raises for a location without the target
ForecastLocation_get_onset(fl) ==
  IF ~has_onset(fl) THEN [raised |-> "onset is not a target"]
  ELSE [raised |-> "", target |-> fl.data["onset"]]

set_peakweek(fl, d) == set_week_target(fl, "peakweek", d)

set_peak(fl, d) == set_ili_target(fl, "peak", d)

LookaheadName(week) == <<"x1", "x2", "x3", "x4">>[week]

set_lookahead(fl, week, d) == set_ili_target(fl, LookaheadName(week), d)

\* the list sanity_check sums for one target: onset's is dist + [none]
CheckedList(tg, with_none) == IF with_none THEN tg.dist \o tg.none ELSE tg.dist

DistErrorZeroAllowedMutant(tg, with_none) ==
  IF ~tg.set \/ (with_none /\ IsNone(tg.none)) THEN "TypeError"
  ELSE LET l == CheckedList(tg, with_none)
       IN  IF ~approx_one(SumSeq(l), tg.den) THEN "distribution must sum to 1"
           ELSE IF \/ \E i \in DOMAIN l : l[i] < 0
                   \/ \E i \in DOMAIN l : l[i] >= tg.den
                THEN "value not in (0, 1)"
           ELSE ""

\* what the loop body of sanity_check raises for one distribution, or "";
\* a value still None makes sum() raise TypeError
DistError(tg, with_none) ==
  IF ~tg.set \/ (with_none /\ IsNone(tg.none)) THEN "TypeError"
  ELSE LET l == CheckedList(tg, with_none)
       IN  IF ~approx_one(SumSeq(l), tg.den) THEN "distribution must sum to 1"
           ELSE IF \/ \E i \in DOMAIN l : l[i] <= 0
                   \/ \E i \in DOMAIN l : l[i] >= tg.den
                THEN "value not in (0, 1)"
           ELSE ""

\* the order sanity_check visits the targets in
CheckOrder(fl) ==
  <<"x1", "x2", "x3", "x4", "peakweek", "peak">>
    \o (IF has_onset(fl) THEN <<"onset">> ELSE <<>>)

RECURSIVE FirstError(_)
FirstError(errors) ==
  IF errors = <<>> THEN ""
  ELSE IF Head(errors) # "" THEN Head(errors)
  ELSE FirstError(Tail(errors))

ForecastLocation_sanity_check(fl) ==
  LET order == CheckOrder(fl)
  IN  FirstError([k \in 1..Len(order) |->
                    DistError(fl.data[order[k]], order[k] = "onset")])

----------------------------------------------------------------------------
(* Forecast (src/utils/forecast.py) *)

\* self.forecasts[location] = forecast; append the location if it is new
\* add_forecast that appends the location without looking for it
AddForecastAlwaysAppendMutant(F, fl) ==
  [ forecasts |-> [l \in DOMAIN F.forecasts \cup {fl.location} |->
                     IF l = fl.location THEN fl ELSE F.forecasts[l]],
    ordered_locations |-> Append(F.ordered_locations, fl.location) ]

add_forecast(F, fl) ==
  [ forecasts |-> [l \in DOMAIN F.forecasts \cup {fl.location} |->
                     IF l = fl.location THEN fl ELSE F.forecasts[l]],
    ordered_locations |->
      IF fl.location \in Range(F.ordered_locations) THEN F.ordered_locations
      ELSE Append(F.ordered_locations, fl.location) ]

get_or_create_forecast(F, location) ==
  IF location \notin DOMAIN F.forecasts
  THEN add_forecast(F, ForecastLocation_init(location))
  ELSE F

SanityCheckSkippedMutant(F) == ""

\* Forecast.sanity_check: the first exception over self.forecasts.values(),
\* which a dict yields in the order the locations were first inserted
Forecast_sanity_check(F) ==
  FirstError([k \in 1..Len(F.ordered_locations) |->
                ForecastLocation_sanity_check(F.forecasts[F.ordered_locations[k]])])

TheForecast == [forecasts |-> forecasts, ordered_locations |-> ordered_locations]

----------------------------------------------------------------------------
(* A Forecast built by hand: the container's operations as a state machine *)

MaxOps == 2

GoodWeek(n) ==
  [ nan |-> FALSE, dist |-> [i \in 1..season_length |-> 1], none |-> n,
    den |-> season_length + NumOr0(n), point |-> 201742 ]

GoodIli ==
  [ nan |-> FALSE, dist |-> [i \in 1..num_ili_bins |-> 1], none |-> None,
    den |-> num_ili_bins, point |-> [nan |-> FALSE, x2 |-> 440] ]

\* week points: a week in the middle of the season, week 53 of a year that
\* has one, week 0 and week 54
WeekPoints == {201742, 201453, 201700, 201754}

\* wILI points (doubled): positive, zero and negative
IliPoints == {440, 0, 0 - 2}

\* distributions to store: the first bin is 0, 1 or 2 parts, every other bin 1
\* part, over the total of the parts or one more
WeekCatalog ==
  { [ nan   |-> FALSE,
      dist  |-> [i \in 1..season_length |-> IF i = 1 THEN a ELSE 1],
      none  |-> n,
      den   |-> a + season_length - 1 + NumOr0(n) + extra,
      point |-> 201742 ] :
    a \in 0..2, n \in {None, Some(0), Some(1)}, extra \in {0, 1} }
  \cup { [GoodWeek(n) EXCEPT !.point = p] : n \in {None, Some(1)}, p \in WeekPoints }

IliCatalog ==
  { [ nan   |-> FALSE,
      dist  |-> [i \in 1..num_ili_bins |-> IF i = 1 THEN a ELSE 1],
      none  |-> None,
      den   |-> a + num_ili_bins - 1 + extra,
      point |-> [nan |-> FALSE, x2 |-> 440] ] :
    a \in 0..2, extra \in {0, 1} }
  \cup { [GoodIli EXCEPT !.point.x2 = p] : p \in IliPoints }

\* a location every target of which was set to a uniform distribution
FilledLocation(location) ==
  LET f0 == ForecastLocation_init(location)
      f1 == IF is_region(location) THEN set_onset(f0, GoodWeek(Some(1))).fl ELSE f0
      f2 == set_peakweek(f1, GoodWeek(None)).fl
      f3 == set_peak(f2, GoodIli).fl
      f4 == set_lookahead(f3, 1, GoodIli).fl
      f5 == set_lookahead(f4, 2, GoodIli).fl
      f6 == set_lookahead(f5, 3, GoodIli).fl
  IN  set_lookahead(f6, 4, GoodIli).fl

RECURSIVE FilledForecast(_)
FilledForecast(locations) ==
  IF locations = <<>> THEN [forecasts |-> <<>>, ordered_locations |-> <<>>]
  ELSE add_forecast(FilledForecast(SubSeq(locations, 1, Len(locations) - 1)),
                    FilledLocation(locations[Len(locations)]))

LocationLists == {<<>>, <<"nat">>, <<"pa">>, <<"nat", "pa">>, <<"pa", "nat">>}

\* a new Forecast, or one every location of which has been filled in
InitContainer ==
  /\ TargetsIdle
  /\ DistIdle
  /\ HybridIdle
  /\ ForecasterIdle
  /\ CovidIdle
  /\ TrainerIdle
  /\ MoreIdle
  /\ \E locations \in LocationLists :
       /\ forecasts = FilledForecast(locations).forecasts
       /\ ordered_locations = locations
  /\ sres = "none"
  /\ ops = 0
  /\ scall = NoCall

GetOrCreateForecast ==
  /\ \E location \in Locs :
       LET F == get_or_create_forecast(TheForecast, location)
       IN  /\ location \notin DOMAIN forecasts
           /\ forecasts' = F.forecasts
           /\ ordered_locations' = F.ordered_locations
  /\ sres' = "none"
  /\ UNCHANGED <<ops, scall>>
  /\ UNCHANGED notContainer

\* fc.set_onset / set_peakweek / set_peak / set_lookahead on a stored location;
\* a raising call leaves the Forecast as it was
StoreResult(op, location, d, r) ==
  /\ forecasts' = [forecasts EXCEPT ![location] = r.fl]
  /\ scall' = [ op |-> op, location |-> location, d |-> d, raised |-> r.raised,
                before |-> forecasts[location] ]
  /\ sres' = "none"
  /\ ops' = ops + 1
  /\ UNCHANGED ordered_locations
  /\ UNCHANGED notContainer

SetOnset ==
  /\ ops < MaxOps
  /\ \E location \in DOMAIN forecasts, d \in WeekCatalog :
       StoreResult("set_onset", location, d, set_onset(forecasts[location], d))

SetPeakweek ==
  /\ ops < MaxOps
  /\ \E location \in DOMAIN forecasts, d \in WeekCatalog :
       StoreResult("set_peakweek", location, d, set_peakweek(forecasts[location], d))

SetPeak ==
  /\ ops < MaxOps
  /\ \E location \in DOMAIN forecasts, d \in IliCatalog :
       StoreResult("set_peak", location, d, set_peak(forecasts[location], d))

SetLookahead ==
  /\ ops < MaxOps
  /\ \E location \in DOMAIN forecasts, week \in 1..4, d \in IliCatalog :
       StoreResult(LookaheadName(week), location, d, set_lookahead(forecasts[location], week, d))

SanityCheck ==
  /\ sres = "none"
  /\ sres' = Forecast_sanity_check(TheForecast)
  /\ UNCHANGED <<forecasts, ordered_locations, ops, scall>>
  /\ UNCHANGED notContainer

NextContainer ==
  \/ GetOrCreateForecast
  \/ SetOnset
  \/ SetPeakweek
  \/ SetPeak
  \/ SetLookahead
  \/ SanityCheck

SpecContainer == InitContainer /\ [][NextContainer]_vars

\* the bins sanity_check looks at for a target, 'none' included where the
\* target has one
BinsOf(fl, t) ==
  IF t = "onset" THEN fl.data[t].dist \o fl.data[t].none ELSE fl.data[t].dist

\* a target with a value still unset, a bin that is 0 or otherwise not
\* strictly inside (0, 1), or a sum outside 1 +- 1e-5
Defective(fl, t) ==
  LET tg == fl.data[t]
      bins == BinsOf(fl, t)
      total == SumSeq(bins)
  IN  \/ ~tg.set
      \/ (t = "onset" /\ IsNone(tg.none))
      \/ \E i \in DOMAIN bins : bins[i] <= 0 \/ bins[i] >= tg.den
      \/ total - tg.den >= (tg.den + 99999) \div 100000
      \/ tg.den - total >= (tg.den + 99999) \div 100000

\* every value set, every bin at least a positive floor, and the sum exactly 1
AtFloorAndSumsToOne(fl, t) ==
  LET tg == fl.data[t]
      bins == BinsOf(fl, t)
  IN  /\ tg.set
      /\ Len(bins) = Len(tg.dist) + (IF t = "onset" THEN 1 ELSE 0)
      /\ \A i \in DOMAIN bins : bins[i] >= 1
      /\ SumSeq(bins) = tg.den

(* C4: Forecast.sanity_check raises when some target of some location has  *)
(* a bin that is 0 (or not strictly inside (0,1)), an unset value, or a sum *)
(* that is not 1 within tolerance; it returns without error when every bin *)
(* of every target is at least the floor and every distribution, with its   *)
(* 'none' where the target has one, sums to 1.                              *)
C4_SanityCheckRejectsAndAccepts ==
  sres # "none" =>
    /\ (\E l \in DOMAIN forecasts : \E t \in DOMAIN forecasts[l].data :
          Defective(forecasts[l], t)) => sres # ""
    /\ (\A l \in DOMAIN forecasts : \A t \in DOMAIN forecasts[l].data :
          AtFloorAndSumsToOne(forecasts[l], t)) => sres = ""

\* a bin that is exactly 0 in the second location of a Forecast, rejected
C4_Witness ==
  /\ sres = "value not in (0, 1)"
  /\ Len(ordered_locations) = 2
  /\ \A t \in DOMAIN forecasts[ordered_locations[1]].data :
       AtFloorAndSumsToOne(forecasts[ordered_locations[1]], t)
  /\ \E t \in DOMAIN forecasts[ordered_locations[2]].data :
       /\ forecasts[ordered_locations[2]].data[t].set
       /\ \E i \in DOMAIN forecasts[ordered_locations[2]].data[t].dist :
            forecasts[ordered_locations[2]].data[t].dist[i] = 0

----------------------------------------------------------------------------
(* Forecaster.forecast (src/forecasters/fc_abstract.py) *)

MaxSampleCurves == 2

MinProbDen == 20

\* min_week_prob and min_wili_prob, in units of 1 / MinProbDen
MinProbNums == {0, 1, 7}

TestSeasons == {2015, 2017, 2018}

ForecastEpiweeks == {201540, 201740, 201741, 201825, 201840}

\* what _forecast may draw: one curve with an onset and one without
CurveCatalog == {<<100, 230, 250, 240>>, <<5, 15, 5, 5>>}

\* Targets.baselines, in hundredths of a percent, for the region modelled
baselines ==
  (2014 :> ("nat" :> 200)) @@ (2015 :> ("nat" :> 210))
    @@ (2016 :> ("nat" :> 220)) @@ (2017 :> ("nat" :> 220))

split_epiweek(epiweek) == <<epiweek \div 100, epiweek % 100>>

\* the first and last epiweek of the season containing epiweek; a season
\* starts on week 40
get_season(epiweek) ==
  LET year == split_epiweek(epiweek)[1]
      week == split_epiweek(epiweek)[2]
  IN  IF week >= 40
      THEN <<join_epiweek(year, 40), join_epiweek(year + 1, 39)>>
      ELSE <<join_epiweek(year - 1, 40), join_epiweek(year, 39)>>

ForecastPrecheckClampMutant(f, epiweek) ==
  LET season == split_epiweek(get_season(epiweek)[1])[1]
      week == split_epiweek(epiweek)[2]
  IN  IF season # f.test_season THEN "unable to forecast season"
      ELSE IF 20 < week /\ week < 40 THEN "unable to forecast week"
      ELSE ""

\* the exception the checks at the top of forecast() raise, or ""
ForecastPrecheck(f, epiweek) ==
  LET season == split_epiweek(get_season(epiweek)[1])[1]
      week == split_epiweek(epiweek)[2]
  IN  IF season # f.test_season THEN "unable to forecast season"
      ELSE IF 20 < week /\ week < 40 THEN "unable to forecast week"
      ELSE IF f.min_week_prob * (season_length + 1) > MinProbDen
           THEN "min_week_prob is impossibly high"
      ELSE IF f.min_wili_prob * num_ili_bins > MinProbDen
           THEN "min_wili_prob is impossibly high"
      ELSE ""

\* the one element of a singleton set; {e(x) : x \in {v}} evaluates v once
Only(S) == CHOOSE x \in S : TRUE

\* fc.set_onset(*onset), fc.set_peakweek(*peakweek), fc.set_peak(*peak) or
\* fc.set_lookahead(week, *x)
SetTarget(fl, target, d) ==
  IF target = "onset" THEN set_onset(fl, d)
  ELSE IF target = "peakweek" THEN set_peakweek(fl, d)
  ELSE IF target = "peak" THEN set_peak(fl, d)
  ELSE set_lookahead(fl, CHOOSE week \in 1..4 : LookaheadName(week) = target, d)

\* the order forecast() fills the targets in; onset for regions only
FillOrder(region) ==
  (IF is_region(region) THEN <<"onset">> ELSE <<>>)
    \o <<"peakweek", "peak", "x1", "x2", "x3", "x4">>

\* the set_* calls of one iteration from the k-th on, up to the first one
\* that raises
RECURSIVE FillForecast(_, _, _, _)
FillForecast(r, region, ds, k) ==
  IF k > Len(FillOrder(region)) \/ r.raised # "" THEN r
  ELSE Only({ FillForecast(nx, region, ds, k + 1) :
              nx \in {SetTarget(r.fl, FillOrder(region)[k], ds[FillOrder(region)[k]])} })

\* the loop body once every distribution is built: get_or_create_forecast and
\* the set_* calls
region_from_dists(F, region, ds) ==
  IF ds["peakweek"].raised # "" THEN [F |-> F, raised |-> ds["peakweek"].raised]
  ELSE Only({ [F |-> [F1 EXCEPT !.forecasts[region] = r.fl], raised |-> r.raised] :
              <<F1, r>> \in
                { <<G, FillForecast([fl |-> G.forecasts[region], raised |-> ""],
                                    region, ds, 1)>> :
                  G \in {get_or_create_forecast(F, region)} } })

\* the loop body once the targets of every curve are known: one distribution
\* per target
region_from_targets(f, c, F, region, targets) ==
  IF \E k \in DOMAIN targets : targets[k].raised # ""
  THEN [F |-> F, raised |-> "ValueError"]
  ELSE
    LET n == Len(targets)
        allow_no_pw == f.test_season < 2016
        week_weight == f.min_week_prob * (season_length + 1)
        wili_weight == f.min_wili_prob * num_ili_bins
        week_dist(t, allow_none) ==
          get_week_forecast(c.first_epiweek, season_length,
            [k \in 1..n |-> IF t = "onset" THEN targets[k].onset ELSE targets[k].peakweek],
            week_weight, MinProbDen, f.smooth_weeks_bw, allow_none)
        wili_dist(t) ==
          get_wili_forecast(IliBinSize, num_ili_bins,
            [k \in 1..n |->
               IF t = "peak" THEN targets[k].peak
               ELSE targets[k].x[CHOOSE week \in 1..4 : LookaheadName(week) = t]],
            wili_weight, MinProbDen, f.smooth_wili_bw)
    IN  Only({ region_from_dists(F, region, ds) :
               ds \in { [t \in Range(FillOrder(region)) |->
                          IF t = "onset" THEN week_dist(t, TRUE)
                          ELSE IF t = "peakweek" THEN week_dist(t, allow_no_pw)
                          ELSE wili_dist(t)] } })

\* the body of the loop over self.locations for one region and the curves
\* _forecast drew for it: the Forecast afterwards and the exception, or ""
forecast_region(f, c, F, region, curves) ==
  IF is_region(region) /\ f.test_season \notin DOMAIN baselines
  THEN [F |-> F, raised |-> "KeyError"]
  ELSE
    LET region_baseline == IF is_region(region)
                           THEN Some(baselines[f.test_season][region]) ELSE None
    IN  Only({ region_from_targets(f, c, F, region, targets) :
               targets \in { [k \in 1..Len(curves) |->
                               get_all_targets(curves[k], region_baseline, c.offset,
                                               Some(f.test_season))] } })

InitForecaster ==
  /\ TargetsIdle
  /\ DistIdle
  /\ HybridIdle
  /\ ContainerIdle
  /\ forecaster \in [ test_season     : TestSeasons,
                      locations       : LocationLists,
                      min_week_prob   : MinProbNums,
                      min_wili_prob   : MinProbNums,
                      smooth_weeks_bw : {0, 1},
                      smooth_wili_bw  : {0, 1} ]
  /\ fcall = [pc |-> "idle"]
  /\ fret = None
  /\ CovidIdle
  /\ TrainerIdle
  /\ MoreIdle

Raise(c, e) ==
  /\ fcall' = [c EXCEPT !.pc = "raised", !.error = e]
  /\ fret' = None

\* forecast.sanity_check() and return forecast
CheckAndReturn(c, F) ==
  LET e == Forecast_sanity_check(F)
  IN  IF e # "" THEN Raise(c, e)
      ELSE /\ fcall' = [c EXCEPT !.pc = "returned"]
           /\ fret' = Some(F)

\* forecast(epiweek) up to the loop; with no location to forecast, to its end
ForecastCall ==
  /\ fcall.pc = "idle"
  /\ \E epiweek \in ForecastEpiweeks :
       LET first_epiweek ==
             join_epiweek(split_epiweek(get_season(epiweek)[1])[1], 40)
           c == [ pc            |-> "loop",
                  epiweek       |-> epiweek,
                  first_epiweek |-> first_epiweek,
                  offset        |-> delta_epiweeks(first_epiweek, epiweek),
                  idx           |-> 1,
                  error         |-> "" ]
           e == ForecastPrecheck(forecaster, epiweek)
       IN  IF e # "" THEN Raise(c, e)
           ELSE IF forecaster.locations = <<>> THEN CheckAndReturn(c, TheForecast)
           ELSE fcall' = c /\ fret' = None
  /\ UNCHANGED <<forecaster, forecasts, ordered_locations>>
  /\ UNCHANGED notForecaster

\* one iteration of the loop, in which _forecast raises
ForecastRegionFails ==
  /\ fcall.pc = "loop"
  /\ Raise(fcall, "missing data")
  /\ UNCHANGED <<forecaster, forecasts, ordered_locations>>
  /\ UNCHANGED notForecaster

\* one iteration of the loop; the last one goes on to the sanity check and
\* the return
ForecastRegion ==
  /\ fcall.pc = "loop"
  /\ \E curves \in SeqsUpTo(CurveCatalog, MaxSampleCurves) :
       \E r \in { forecast_region(forecaster, fcall, TheForecast,
                                   forecaster.locations[fcall.idx], curves) } :
           /\ forecasts' = r.F.forecasts
           /\ ordered_locations' = r.F.ordered_locations
           /\ IF r.raised # "" THEN Raise(fcall, r.raised)
              ELSE IF fcall.idx < Len(forecaster.locations)
              THEN fcall' = [fcall EXCEPT !.idx = @ + 1] /\ fret' = None
              ELSE CheckAndReturn(fcall, r.F)
  /\ UNCHANGED forecaster
  /\ UNCHANGED notForecaster

NextForecaster ==
  \/ ForecastCall
  \/ ForecastRegionFails
  \/ ForecastRegion

SpecForecaster == InitForecaster /\ [][NextForecaster]_vars

ForecastDone == fcall.pc \in {"returned", "raised"}

SomeDefect(F) ==
  \E l \in DOMAIN F.forecasts : \E t \in DOMAIN F.forecasts[l].data :
    Defective(F.forecasts[l], t)

(* C3: Forecaster.forecast returns a Forecast only after the sanity check  *)
(* has passed for every location in it: a returned Forecast holds every     *)
(* configured location and no defective distribution, and when any         *)
(* location's distribution violates an invariant the call has raised and    *)
(* nothing was returned.                                                    *)
C3_ReturnedOnlyAfterSanityCheck ==
  /\ fret # None =>
       /\ fcall.pc = "returned"
       /\ DOMAIN Val(fret).forecasts = Range(forecaster.locations)
       /\ ~SomeDefect(Val(fret))
  /\ (ForecastDone /\ SomeDefect(TheForecast)) => (fcall.pc = "raised" /\ fret = None)
  /\ fcall.pc = "raised" => fret = None

\* both locations were filled in, the first one is sound, the second one is
\* not, and the call raised out of the final sanity check
C3_Witness ==
  /\ fcall.pc = "raised"
  /\ fret = None
  /\ Len(forecaster.locations) = 2
  /\ DOMAIN forecasts = Range(forecaster.locations)
  /\ \A l \in DOMAIN forecasts : \A t \in DOMAIN forecasts[l].data :
       forecasts[l].data[t].set
  /\ SomeDefect(TheForecast)

----------------------------------------------------------------------------
(* Epicast's builders (src/epicast/fc_epicast.py, fc_epicast_hosp.py) *)

\* the bin masses cdf(b) - cdf(a) of the fitted Student's t, in parts: any of
\* these stands for what scipy returns, every bin carrying some mass
FitShapes(num_bins) ==
  { [i \in 1..num_bins |-> 1], [i \in 1..num_bins |-> IF i = 1 THEN 2 ELSE 1] }

NotNone(values) == SelectSeq(values, LAMBDA v : ~IsNone(v))

Unwrap(values) == [k \in 1..Len(values) |-> Val(values[k])]

\* fit_distribution: the values it fits (a single 0 when none is left), their
\* median (doubled) and the normalized bin masses
fit_distribution(values, num_bins, shape) ==
  LET given == Unwrap(NotNone(values))
      used == IF given = <<>> THEN <<0>> ELSE given
  IN  [ values |-> used,
        mu2    |-> Median2(used).x2,
        dist   |-> [nan |-> FALSE, num |-> shape, den |-> SumSeq(shape)] ]

\* int(median_low(possibilities)) in fc_epicast.py
EpicastPoint(possibilities) == median_low(possibilities)

\* int(np.median(possibilities)) in fc_epicast_hosp.py: the mean of the two
\* middle samples, truncated
EpicastHospPoint(possibilities) == Median2(possibilities).x2 \div 2

\* Epicast.get_week_forecast(num_users)._forecast; hosp selects the variant of
\* fc_epicast_hosp.py, which differs in the point estimate only
epicast_get_week_forecast(hosp, first_epiweek, num_bins, indices, wn, wd, allow_none, shape) ==
  LET num_none == Count(indices, None)
  IN  IF num_none > 0 /\ ~allow_none THEN [raised |-> "Exception"]
      ELSE
        LET fit == fit_distribution(indices, num_bins, shape)
            scaled == [i \in 1..num_bins |-> fit.dist.num[i] * (Len(indices) - num_none)]
            extra == IF allow_none THEN <<num_none * fit.dist.den>> ELSE <<>>
            t0 == normalize(scaled \o extra)
            t2 == blend(t0, wn, wd)
            given == Unwrap(NotNone(indices))
            possibilities == IF given = <<>> THEN <<0>> ELSE given
        IN  [ raised |-> "",
              nan    |-> t2.nan,
              dist   |-> SubSeq(t2.num, 1, num_bins),
              none   |-> IF allow_none THEN Some(t2.num[num_bins + 1]) ELSE None,
              den    |-> t2.den,
              point  |-> add_epiweeks(first_epiweek,
                           IF hosp THEN EpicastHospPoint(possibilities)
                           ELSE EpicastPoint(possibilities)) ]

\* Epicast.get_wili_forecast(num_users)._forecast
epicast_get_wili_forecast(bin_size, num_bins, samples, wn, wd, shape) ==
  LET fit == fit_distribution([k \in 1..Len(samples) |-> Some(samples[k])], num_bins, shape)
      t2 == blend(normalize(fit.dist.num), wn, wd)
  IN  [ raised |-> "",
        nan    |-> t2.nan,
        dist   |-> t2.num,
        none   |-> None,
        den    |-> t2.den,
        point  |-> Median2(samples) ]

FirstEpiweek == join_epiweek(2018, 40)

EpicastGetWeekForecast ==
  /\ dcall.op = "none"
  /\ \E indices \in SeqsUpTo(WeekSamples(dcall.num_bins), MaxSamples),
        allow_none \in BOOLEAN, shape \in FitShapes(dcall.num_bins) :
       /\ dcall' = [dcall EXCEPT !.op = IF allow_none THEN "ec_week_none" ELSE "ec_week",
                                 !.samples = indices]
       /\ dres' = epicast_get_week_forecast(FALSE, FirstEpiweek, dcall.num_bins, indices,
                                            dcall.uniform_weight, WeightDen, allow_none, shape)
  /\ UNCHANGED notDist

EpicastHospGetWeekForecast ==
  /\ dcall.op = "none"
  /\ \E indices \in SeqsUpTo(WeekSamples(dcall.num_bins), MaxSamples),
        allow_none \in BOOLEAN, shape \in FitShapes(dcall.num_bins) :
       /\ dcall' = [dcall EXCEPT !.op = IF allow_none THEN "hosp_week_none" ELSE "hosp_week",
                                 !.samples = indices]
       /\ dres' = epicast_get_week_forecast(TRUE, FirstEpiweek, dcall.num_bins, indices,
                                            dcall.uniform_weight, WeightDen, allow_none, shape)
  /\ UNCHANGED notDist

EpicastGetWiliForecast ==
  /\ dcall.op = "none"
  /\ \E samples \in SeqsUpTo(WiliSamples, MaxSamples), shape \in FitShapes(dcall.num_bins) :
       /\ dcall' = [dcall EXCEPT !.op = "ec_wili", !.samples = samples]
       /\ dres' = epicast_get_wili_forecast(IliBinSize, dcall.num_bins, samples,
                                            dcall.uniform_weight, WeightDen, shape)
  /\ UNCHANGED notDist

\* the default builders and Epicast's
NextBuilders ==
  \/ GetWeekForecast
  \/ GetWiliForecast
  \/ EpicastGetWeekForecast
  \/ EpicastHospGetWeekForecast
  \/ EpicastGetWiliForecast

SpecBuilders == InitDist /\ [][NextBuilders]_vars

WeekOps == {"week", "week_none", "ec_week", "ec_week_none", "hosp_week", "hosp_week_none"}

NoneAllowedOps == {"week_none", "ec_week_none", "hosp_week_none"}

\* the samples of the call that are not None, as numbers
GivenSamples == Unwrap(NotNone(dcall.samples))

\* the lower of the two middle samples (the middle one of an odd number)
LowerMiddle(s) == KthSmallest(s, (Len(s) + 1) \div 2)

(* C11: in every week-distribution builder (the default one and both       *)
(* Epicast variants) the point estimate is first_epiweek advanced by the    *)
(* median-low of the samples that are not None, by 0 when there is none;    *)
(* for an even number of samples that is the lower middle sample.           *)
C11_PointIsMedianLow ==
  (dcall.op \in WeekOps /\ dres.raised = "") =>
    dres.point = add_epiweeks(FirstEpiweek,
                   IF GivenSamples = <<>> THEN 0 ELSE LowerMiddle(GivenSamples))

----------------------------------------------------------------------------
(* Forecaster.forecast: the blending weights *)

ZeroFloor == forecaster.min_week_prob = 0 \/ forecaster.min_wili_prob = 0

ImpossibleFloor ==
  \/ forecaster.min_week_prob * (season_length + 1) > MinProbDen
  \/ forecaster.min_wili_prob * num_ili_bins > MinProbDen

(* C12: a blending weight of 0 is rejected: a forecaster configured with   *)
(* min_week_prob = 0 or min_wili_prob = 0 raises instead of building any    *)
(* distribution, so its forecast() never reaches the loop over locations.   *)
C12_ZeroWeightRejected ==
  ZeroFloor => (fcall.pc \in {"idle", "raised"} /\ forecasts = <<>>)

(* C13: when min_week_prob * (number of week bins + 1) > 1 or               *)
(* min_wili_prob * number of ILI bins > 1, forecast() raises before it      *)
(* draws trajectories for any location: it never enters the loop, builds no *)
(* distribution and returns nothing.                                        *)
C13_ImpossibleFloorRaises ==
  (ImpossibleFloor /\ fcall.pc # "idle") =>
    /\ fcall.pc = "raised"
    /\ fcall.idx = 1
    /\ fcall.error \in { "unable to forecast season", "unable to forecast week",
                         "min_week_prob is impossibly high",
                         "min_wili_prob is impossibly high" }
    /\ forecasts = <<>>
    /\ fret = None

\* a call for the right season and a forecastable week, with locations to
\* forecast, that raised for the week floor
C13_Witness ==
  /\ fcall.pc = "raised"
  /\ fcall.error = "min_week_prob is impossibly high"
  /\ forecaster.locations # <<>>
  /\ forecasts = <<>>

----------------------------------------------------------------------------
(* None samples in the week builders *)

NumNone == Count(dcall.samples, None)

\* the builders that fold no neighbouring mass into the 'none' bin: Epicast's
\* never smooth, the default one with smooth_bw = 0
Unsmoothed == dcall.op # "week_none" \/ dcall.smooth_bw = 0

\* the samples that take part in the distribution: the default builder counts
\* None and the indices 0..num_bins-1 only, Epicast's weighs by len(indices)
Counted ==
  IF dcall.op = "week_none"
  THEN NumNone + Cardinality({k \in DOMAIN dcall.samples :
                               /\ ~IsNone(dcall.samples[k])
                               /\ Val(dcall.samples[k]) \in 0..(dcall.num_bins - 1)})
  ELSE Len(dcall.samples)

(* C14: a week builder called with allow_none false on samples that hold   *)
(* at least one None raises and returns no distribution, in the default     *)
(* builder and in Epicast's; with allow_none true the None samples are      *)
(* counted in a separate 'none' probability: their share of the counted     *)
(* samples, blended with the uniform share 1 / (num_bins + 1).              *)
C14_NoneSamples ==
  /\ (dcall.op \in WeekOps \ NoneAllowedOps /\ NumNone > 0) =>
       (dres.raised # "" /\ "dist" \notin DOMAIN dres /\ "none" \notin DOMAIN dres)
  /\ (dcall.op \in NoneAllowedOps) =>
       /\ dres.raised = ""
       /\ ~IsNone(dres.none)
       /\ (Unsmoothed /\ ~dres.nan) =>
            Val(dres.none) * WeightDen * (dcall.num_bins + 1) * Counted
              = dres.den * ( dcall.uniform_weight * Counted
                             + (WeightDen - dcall.uniform_weight)
                                 * (dcall.num_bins + 1) * NumNone )

\* the default builder refusing a None sample
C14_Witness ==
  /\ dcall.op = "week"
  /\ NumNone > 0
  /\ Len(dcall.samples) > NumNone
  /\ dres.raised = "Exception"

----------------------------------------------------------------------------
(* Forecaster.forecast: a location whose data is missing *)

\* the locations after the one the loop stopped at
LocationsLeft == Len(forecaster.locations) - fcall.idx

(* C15: a data-availability failure while forecasting one location is      *)
(* fatal for that location only: forecast() skips it and still forecasts    *)
(* every other location, so the call never ends on a location's 'missing    *)
(* data' with locations of the list left unforecast.                        *)
C15_DataFailureSkipsLocation ==
  ~( /\ fcall.pc = "raised"
     /\ fcall.error = "missing data"
     /\ LocationsLeft > 0 )

----------------------------------------------------------------------------
(* The COVID pipeline (src/covid/epicast_core.py, targets.py) *)

MaxUsers == 2

CovidCurveLen == 31

\* Constants.BASELINES['nat'], in hundredths of a percent
CovidBaseline == 240

\* '1wk_wili' .. '6wk_wili'
NWeekName(n) == <<"1wk_wili", "2wk_wili", "3wk_wili", "4wk_wili", "5wk_wili", "6wk_wili">>[n]

\* Constants.COMMON_TARGETS
COMMON_TARGETS == {"peak_week", "peak_wili"} \cup {NWeekName(n) : n \in 1..6}

EndsWithWeek(target) == target \in {"peak_week", "offset_week"}

\* series[i:i + 3] for a 0-based i
Slice3(series, i) == SubSeq(series, i + 1, Min2(i + 3, Len(series)))

\* get_offset_week: the first i in range(26) with every value of
\* series[i:i + 3] below the baseline (np.all of an empty slice is True)
covid_get_offset_week(series, b) ==
  LET hits == {i \in 0..(CovidWindow - 1) :
                 \A k \in DOMAIN Slice3(series, i) : Slice3(series, i)[k] < b}
  IN  IF hits = {} THEN None ELSE Some(MinOf(hits))

\* get_forecast_point_and_dist: the point (median_low for a week target, the
\* median, doubled, for a wILI target) and the t distribution's df and
\* location (the median, doubled); the median of no value raises
get_forecast_point_and_dist(target, values) ==
  IF values = <<>> THEN [raised |-> "StatisticsError"]
  ELSE [ raised |-> "",
         point  |-> IF EndsWithWeek(target) THEN median_low(values)
                    ELSE Median2(values).x2,
         df     |-> Len(values),
         loc2   |-> Median2(values).x2 ]

\* the values of one target over the samples
TargetValues(ts, target) ==
  IF target = "peak_week" THEN [k \in DOMAIN ts |-> ts[k].peak_week]
  ELSE IF target = "peak_wili" THEN [k \in DOMAIN ts |-> ts[k].peak_wili]
  ELSE [k \in DOMAIN ts |->
          ts[k].nwk[CHOOSE n \in 1..6 : NWeekName(n) = target].value]

\* EpicastCore.forecast for one location: c.fetched is whether the Epidata
\* call succeeded, c.has_users whether user_predictions holds the location,
\* c.samples are the curves built from the observed wILI and the predictions
EpicastCore_forecast(c) ==
  IF ~c.fetched THEN [raised |-> "Epidata"]
  ELSE IF ~c.has_users THEN [raised |-> "KeyError"]
  ELSE IF \E k \in DOMAIN c.samples : Len(c.samples[k]) # CovidCurveLen
  THEN [raised |-> "curve should be 31 weeks"]
  ELSE
    LET has_baseline == ~IsNone(c.baseline)
        ts == [k \in DOMAIN c.samples |-> covid_targets(c.samples[k], c.current_week)]
        offsets == [k \in DOMAIN c.samples |->
                      IF has_baseline THEN covid_get_offset_week(c.samples[k], Val(c.baseline))
                      ELSE None]
        offset_week == Unwrap(NotNone(offsets))
        common == [t \in COMMON_TARGETS |->
                     get_forecast_point_and_dist(t, TargetValues(ts, t))]
    IN  IF \E k \in DOMAIN ts : \E n \in 1..6 : ts[k].nwk[n].raised # ""
        THEN [raised |-> "IndexError"]
        ELSE IF c.samples = <<>> THEN [raised |-> "StatisticsError"]
        ELSE IF has_baseline /\ offset_week = <<>>
        THEN [raised |-> "no offsets, forecast is undefined"]
        ELSE [ raised |-> "",
               dists  |-> IF has_baseline
                          THEN common @@ ("offset_week" :>
                                 get_forecast_point_and_dist("offset_week", offset_week))
                          ELSE common,
               \* np.mean of the 0 / 1 values, as a pair
               offset_happened |->
                 IF has_baseline THEN Some(<<Len(offset_week), Len(c.samples)>>) ELSE None ]

\* a curve that stays above the baseline, one that dips below it in weeks
\* 10..12, and one that is a week short
CovidCurves ==
  { [i \in 1..CovidCurveLen |-> 300],
    [i \in 1..CovidCurveLen |-> IF i \in 11..13 THEN 100 ELSE 300 + i],
    [i \in 1..(CovidCurveLen - 1) |-> 300] }

InitCovid ==
  /\ TargetsIdle
  /\ DistIdle
  /\ HybridIdle
  /\ ContainerIdle
  /\ ForecasterIdle
  /\ TrainerIdle
  /\ MoreIdle
  /\ covid \in [ op           : {"none"},
                 fetched      : BOOLEAN,
                 has_users    : BOOLEAN,
                 samples      : SeqsUpTo(CovidCurves, MaxUsers),
                 baseline     : {None, Some(CovidBaseline)},
                 current_week : {4, 24, 25},
                 uniform_weight : WeightNums ]
  /\ cres = [raised |-> "none"]

CovidForecast ==
  /\ covid.op = "none"
  /\ covid' = [covid EXCEPT !.op = "forecast"]
  /\ cres' = EpicastCore_forecast(covid)
  /\ UNCHANGED notCovid

\* the bins of a target, scaled down from 26 week bins and 251 wILI bins
CovidBins == 3

\* unif_bins[-1] += 49: the last wILI bin counts as 50 uniform bins
LastBinExtra == 49

\* materialize_bins for one location's forecast r, with UNIFORM_WEIGHT =
\* wn / wd; shape stands for the t distribution's mass in each bin
materialize_bins(r, wn, wd, shape) ==
  IF ~(0 < wn /\ wn < wd) THEN [raised |-> "UNIFORM_WEIGHT must be in [0, 1]"]
  ELSE
    LET S == SumSeq(shape)
        L == Len(shape)
        week_bins == blend(normalize(shape), wn, wd)
        wili_bins ==
          [ num |-> [i \in 1..L |->
                       shape[i] * (wd - wn) * (L + LastBinExtra)
                         + (IF i = L THEN 1 + LastBinExtra ELSE 1) * wn * S],
            den |-> S * wd * (L + LastBinExtra) ]
        bins == [t \in DOMAIN r.dists |->
                   IF EndsWithWeek(t) THEN [num |-> week_bins.num, den |-> week_bins.den]
                   ELSE wili_bins]
        \* min(prob_offset, 1 - uniform_weight / 2), then max(., uniform_weight / 2)
        prob_offset ==
          IF IsNone(r.offset_happened) THEN None
          ELSE LET k == Val(r.offset_happened)[1]
                   n == Val(r.offset_happened)[2]
               IN  Some(<<Max2(Min2(2 * wd * k, (2 * wd - wn) * n), wn * n), 2 * wd * n>>)
    IN  IF \E t \in DOMAIN bins : SumSeq(bins[t].num) # bins[t].den
        THEN [raised |-> "uniform blending is broken"]
        ELSE IF \E t \in DOMAIN bins : \E i \in 1..L :
                  bins[t].num[i] < (bins[t].den + 99999) \div 100000
        THEN [raised |-> "prob is very small, consider blending more"]
        ELSE [ raised |-> "", dists |-> r.dists, offset_happened |-> r.offset_happened,
               bins |-> bins, prob_offset |-> prob_offset ]

MaterializeBins ==
  /\ covid.op = "forecast"
  /\ cres.raised = ""
  /\ \E shape \in FitShapes(CovidBins) :
       cres' = materialize_bins(cres, covid.uniform_weight, WeightDen, shape)
  /\ covid' = [covid EXCEPT !.op = "bins"]
  /\ UNCHANGED notCovid

NextCovid == CovidForecast \/ MaterializeBins

SpecCovid == InitCovid /\ [][NextCovid]_vars

\* a target of the call has no valid sample: no user at all, or a region none
\* of whose curves ever falls below the baseline
NoValidSamples ==
  /\ covid.fetched
  /\ \A k \in DOMAIN covid.samples : Len(covid.samples[k]) = CovidCurveLen
  /\ \/ ~covid.has_users
     \/ covid.samples = <<>>
     \/ /\ ~IsNone(covid.baseline)
        /\ \A k \in DOMAIN covid.samples :
             IsNone(covid_get_offset_week(covid.samples[k], Val(covid.baseline)))

(* C16: when a target has no valid samples (no users, or no offset week at *)
(* all) the pipeline substitutes a placeholder sample of 0 and still        *)
(* produces a distribution and a point estimate: EpicastCore.forecast never *)
(* raises because a target's sample list is empty.                          *)
C16_PlaceholderForEmptyTarget ==
  (covid.op = "forecast" /\ NoValidSamples /\ covid.current_week + 6 < CovidCurveLen) =>
    /\ cres.raised = ""
    /\ \A t \in DOMAIN cres.dists : cres.dists[t].raised = ""

----------------------------------------------------------------------------
(* Forecaster.forecast: onset *)

\* the locations whose loop iteration has completed
Processed ==
  IF fcall.pc = "idle" THEN {}
  ELSE IF fcall.pc = "returned" THEN Range(forecaster.locations)
  ELSE {forecaster.locations[k] : k \in 1..(fcall.idx - 1)}

(* C17: onset is forecast for region locations only. A non-region          *)
(* location's forecast has no onset target, get_onset and set_onset raise   *)
(* for it and its sanity check looks at the six other targets only; a       *)
(* region location's onset distribution and 'none' probability are set by   *)
(* the time its loop iteration is over, so before the sanity check.         *)
C17_OnsetForRegionsOnly ==
  /\ \A l \in DOMAIN forecasts :
       /\ is_region(l) <=> "onset" \in DOMAIN forecasts[l].data
       /\ ~is_region(l) =>
            /\ ForecastLocation_get_onset(forecasts[l]).raised # ""
            /\ \A d \in WeekCatalog :
                 /\ set_onset(forecasts[l], d).raised # ""
                 /\ set_onset(forecasts[l], d).fl = forecasts[l]
            /\ "onset" \notin Range(CheckOrder(forecasts[l]))
  /\ \A l \in Processed :
       /\ l \in DOMAIN forecasts
       /\ is_region(l) =>
            /\ forecasts[l].data["onset"].set
            /\ ~IsNone(forecasts[l].data["onset"].none)
  /\ fret # None =>
       \A l \in DOMAIN Val(fret).forecasts :
         ~is_region(l) => "onset" \notin DOMAIN Val(fret).forecasts[l].data

\* a returned Forecast with a region, whose onset is set, and a state,
\* which has no onset
C17_Witness ==
  /\ fcall.pc = "returned"
  /\ fret # None
  /\ \E l \in DOMAIN forecasts :
       is_region(l) /\ forecasts[l].data["onset"].set
  /\ \E l \in DOMAIN forecasts :
       ~is_region(l) /\ "onset" \notin DOMAIN forecasts[l].data

----------------------------------------------------------------------------
(* ForecastLocation: point estimates *)

WeekSetOps == {"set_onset", "set_peakweek"}

IliSetOps == {"set_peak", "x1", "x2", "x3", "x4"}

\* the call would pass with a point that is surely valid: its distribution
\* is fine and the location has the target
ValidButForPoint ==
  IF scall.op \in WeekSetOps
  THEN /\ check_week_values([scall.d EXCEPT !.point = 201742]) = ""
       /\ (scall.op = "set_onset" => is_region(scall.location))
  ELSE check_ili_values([scall.d EXCEPT !.point.x2 = 440]) = ""

(* C18: a location forecast accepts a week-target point exactly when its   *)
(* week of the year, point mod 100, lies in 1..53, and an ILI-target point  *)
(* exactly when it is non-negative; set_onset, set_peakweek, set_peak and   *)
(* set_lookahead raise for any other point.                                 *)
C18_PointAccepted ==
  /\ (scall.op \in WeekSetOps /\ ValidButForPoint) =>
       (scall.raised = "" <=> scall.d.point % 100 \in 1..53)
  /\ (scall.op \in IliSetOps /\ ValidButForPoint) =>
       (scall.raised = "" <=> scall.d.point.x2 >= 0)

----------------------------------------------------------------------------
(* Hybrid: construction *)

Constructed == hctor.raised # "none"

SeasonsDiffer == hctor.past.test_season # hctor.future.test_season

(* C19: constructing a Hybrid from a past and a future forecaster whose    *)
(* test seasons differ raises and creates no forecaster; when the seasons   *)
(* are equal the Hybrid takes that season and the past forecaster's         *)
(* locations.                                                               *)
C19_HybridConstruction ==
  Constructed =>
    IF SeasonsDiffer
    THEN hctor.raised # "" /\ hybrid = NoHybrid
    ELSE /\ hctor.raised = ""
         /\ hybrid.built
         /\ hybrid.test_season = hctor.past.test_season
         /\ hybrid.test_season = hctor.future.test_season
         /\ hybrid.locations = hctor.past.locations

C19_Witness ==
  /\ Constructed
  /\ SeasonsDiffer
  /\ hctor.past.locations # hctor.future.locations
  /\ hctor.raised # ""

----------------------------------------------------------------------------
(* Training (Forecaster.open and the _train of each forecaster) *)

MaxTrainCalls == 3

TrainLocs == {"nat", "hhs4", "pa"}

\* len(region) == 2: the state codes
IsStateCode(region) == region \in {"pa"}

\* what the Epidata API answers to one training fetch: an error, too few
\* rows for a variance, or one of two versions of the wILI data
TrainData ==
  { [ok |-> FALSE, enough |-> FALSE, v |-> 0],
    [ok |-> TRUE, enough |-> FALSE, v |-> 1],
    [ok |-> TRUE, enough |-> TRUE, v |-> 1],
    [ok |-> TRUE, enough |-> TRUE, v |-> 2] }

\* Baseline._train: region in bf_var means already trained; a state copies
\* the statistics of hhs4; otherwise the data is fetched, the empirical
\* statistics stored, then the backfill variances, which need two changes
Baseline_train(t, region, data) ==
  IF t.stats[region] # None THEN [raised |-> "", t |-> t]
  ELSE IF IsStateCode(region)
       THEN IF t.stats["hhs4"] = None
            THEN [raised |-> "KeyError", t |-> t]
            ELSE [raised |-> "", t |-> [t EXCEPT !.stats[region] = t.stats["hhs4"]]]
  ELSE IF ~data.ok
       THEN [raised |-> "Epidata", t |-> [t EXCEPT !.fetches = @ + 1]]
  ELSE IF ~data.enough
       THEN [ raised |-> "not enough data",
              t |-> [t EXCEPT !.fetches = @ + 1,
                              !.stats[region] = Some([emp |-> data.v, bf_var |-> <<>>])] ]
  ELSE [ raised |-> "",
         t |-> [t EXCEPT !.fetches = @ + 1,
                         !.stats[region] = Some([emp |-> data.v, bf_var |-> <<data.v>>])] ]

\* Archefilter._train: fetches the training seasons and builds the archetype
Archefilter_train(t, region, data) ==
  IF ~data.ok
  THEN [raised |-> "Epidata", t |-> [t EXCEPT !.fetches = @ + 1]]
  ELSE [ raised |-> "",
         t |-> [t EXCEPT !.fetches = @ + 1,
                         !.stats[region] = Some([emp |-> data.v, bf_var |-> <<>>])] ]

\* Epicast._train: pass
Epicast_train(t, region, data) == [raised |-> "", t |-> t]

\* self._train(region), and the regions whose _train has returned
Forecaster_train(t, region, data) ==
  LET r == CASE t.kind = "baseline" -> Baseline_train(t, region, data)
             [] t.kind = "archefilter" -> Archefilter_train(t, region, data)
             [] OTHER -> Epicast_train(t, region, data)
  IN  IF r.raised = ""
      THEN [raised |-> "", t |-> [r.t EXCEPT !.done = @ \cup {region}]]
      ELSE r

\* Forecaster.open: _train for each location in turn, from location k on
RECURSIVE Forecaster_open(_, _, _)
Forecaster_open(t, k, data) ==
  IF k > Len(t.locations) THEN [raised |-> "", t |-> t]
  ELSE Only({ IF r.raised # "" THEN r ELSE Forecaster_open(r.t, k + 1, data) :
              r \in { Forecaster_train(t, t.locations[k], data) } })

InitTrainer ==
  /\ TargetsIdle
  /\ DistIdle
  /\ HybridIdle
  /\ ContainerIdle
  /\ ForecasterIdle
  /\ CovidIdle
  /\ MoreIdle
  /\ trainer \in [ kind : {"baseline", "archefilter", "epicast"},
                   locations : {<<"nat", "hhs4">>, <<"hhs4", "pa">>, <<"pa", "nat">>},
                   stats : {[l \in TrainLocs |-> None]},
                   done : {{}},
                   fetches : {0},
                   calls : {0} ]
  /\ trcall = NoCall

TrainStore(op, region, r) ==
  /\ trainer' = [r.t EXCEPT !.calls = @ + 1]
  /\ trcall' = [op |-> op, region |-> region, before |-> trainer, raised |-> r.raised]
  /\ UNCHANGED notTrainer

BaselineTrain ==
  /\ trainer.kind = "baseline"
  /\ trainer.calls < MaxTrainCalls
  /\ \E region \in TrainLocs, data \in TrainData :
       TrainStore("_train", region, Forecaster_train(trainer, region, data))

ArchefilterTrain ==
  /\ trainer.kind = "archefilter"
  /\ trainer.calls < MaxTrainCalls
  /\ \E region \in TrainLocs, data \in TrainData :
       TrainStore("_train", region, Forecaster_train(trainer, region, data))

EpicastTrain ==
  /\ trainer.kind = "epicast"
  /\ trainer.calls < MaxTrainCalls
  /\ \E region \in TrainLocs, data \in TrainData :
       TrainStore("_train", region, Forecaster_train(trainer, region, data))

ForecasterOpen ==
  /\ trainer.calls < MaxTrainCalls
  /\ \E data \in TrainData :
       TrainStore("open", "", Forecaster_open(trainer, 1, data))

NextTrainer ==
  \/ BaselineTrain
  \/ ArchefilterTrain
  \/ EpicastTrain
  \/ ForecasterOpen

SpecTrainer == InitTrainer /\ [][NextTrainer]_vars

\* the locations the last call trains
TrainedBy(c) ==
  IF c.op = "open" THEN { c.before.locations[k] : k \in 1..Len(c.before.locations) }
  ELSE {c.region}

(* C20: training is idempotent and cached per location for every forecast  *)
(* process: once a location has been trained, a further train call for it,  *)
(* directly or through open(), fetches no data and leaves that location's   *)
(* trained statistics exactly as they were.                                 *)
C20_TrainingIsCached ==
  (trcall.op \in {"_train", "open"} /\ TrainedBy(trcall) \subseteq trcall.before.done) =>
    /\ trainer.fetches = trcall.before.fetches
    /\ \A l \in TrainedBy(trcall) : trainer.stats[l] = trcall.before.stats[l]

----------------------------------------------------------------------------
(* The submission flow (src/main/submit.py, src/utils/submission_loader.py, *)
(* src/utils/flusight.py)                                                   *)

OldIdle ==
  /\ TargetsIdle
  /\ DistIdle
  /\ HybridIdle
  /\ ContainerIdle
  /\ ForecasterIdle
  /\ CovidIdle
  /\ TrainerIdle

\* the forecast files of a run: the combined file of each system and its
\* regional and state splits
EcFiles == <<"ec", "ec_reg", "ec_sta">>

AfFiles == <<"af", "af_reg", "af_sta">>

SubmitFiles == {"ec", "ec_reg", "ec_sta", "af", "af_reg", "af_sta"}

Event(kind, file) == [kind |-> kind, file |-> file]

RECURSIVE Events(_, _, _)
Events(kind, files, k) ==
  IF k > Len(files) THEN <<>> ELSE <<Event(kind, files[k])>> \o Events(kind, files, k + 1)

\* the files submit() handles, in the order of its steps
RunFiles(s) ==
  (IF s.run_ec THEN EcFiles ELSE <<>>) \o (IF s.run_af THEN AfFiles ELSE <<>>)

CombinedFiles(s) ==
  (IF s.run_ec THEN <<"ec">> ELSE <<>>) \o (IF s.run_af THEN <<"af">> ELSE <<>>)

SplitFiles(s) ==
  (IF s.run_ec THEN <<"ec_reg", "ec_sta">> ELSE <<>>)
    \o (IF s.run_af THEN <<"af_reg", "af_sta">> ELSE <<>>)

SubRaise(s, e) == [s EXCEPT !.pc = "failed", !.raised = e]

\* submit(), the tests on its arguments
submit_args(s) ==
  IF ~s.run_ec /\ ~s.run_af THEN SubRaise(s, "either EC or AF is required")
  ELSE IF ~s.do_store /\ s.do_email THEN SubRaise(s, "do_email requires do_store")
  ELSE IF ~s.do_store /\ s.do_upload THEN SubRaise(s, "do_upload requires do_store")
  ELSE IF ~s.run_ec /\ s.update_round THEN SubRaise(s, "update_round requires run_ec")
  ELSE [s EXCEPT !.pc = "generate"]

\* steps 1a and 1b: the forecasts are generated, saved and split
submit_generate(s) ==
  [s EXCEPT !.pc = "sanity", !.log = @ \o Events("generate", RunFiles(s), 1)]

\* sanity_check on each file of the list in turn, up to the first that fails
RECURSIVE SanityChecks(_, _, _)
SanityChecks(s, files, k) ==
  IF k > Len(files) THEN [s EXCEPT !.pc = "store"]
  ELSE IF files[k] \in s.bad THEN SubRaise(s, "sanity_check")
  ELSE SanityChecks([s EXCEPT !.log = Append(@, Event("sane", files[k]))], files, k + 1)

\* step 2 left out
SubmitSanitySkippedMutant(s) == [s EXCEPT !.pc = "store"]

\* step 2: unless insane, every file is loaded and sanity-checked
submit_sanity(s) ==
  IF s.insane THEN [s EXCEPT !.pc = "store"] ELSE SanityChecks(s, RunFiles(s), 1)

\* load_submission(file, insane, test): the stored Forecast class checks the
\* file again (legacy_ok is what that check finds) unless insane, and the
\* row is inserted and committed unless test
load_submission(s, file, legacy_ok) ==
  IF ~s.insane /\ ~legacy_ok THEN SubRaise(s, "Sanity check failed")
  ELSE IF s.test_mode THEN s
  ELSE [s EXCEPT !.log = Append(@, Event("store", file))]

RECURSIVE LoadSubmissions(_, _, _, _)
LoadSubmissions(s, files, k, legacy_ok) ==
  IF k > Len(files) THEN [s EXCEPT !.pc = "email"]
  ELSE Only({ IF r.raised # "" THEN r ELSE LoadSubmissions(r, files, k + 1, legacy_ok) :
              r \in { load_submission(s, files[k], legacy_ok[files[k]]) } })

\* step 3: the combined forecast of each system is stored (step 4, the
\* plots, reads the files and changes nothing)
submit_store(s, legacy_ok) ==
  IF s.do_store THEN LoadSubmissions(s, CombinedFiles(s), 1, legacy_ok)
  ELSE [s EXCEPT !.pc = "email"]

\* step 5: the regional and state files are attached to the email
submit_email(s) ==
  IF s.do_email
  THEN [s EXCEPT !.pc = "upload", !.log = @ \o Events("email", SplitFiles(s), 1)]
  ELSE [s EXCEPT !.pc = "upload"]

\* step 6: the upload is skipped in test mode and not implemented otherwise
submit_upload(s) ==
  IF s.do_upload /\ ~s.test_mode THEN SubRaise(s, "NotImplementedError")
  ELSE [s EXCEPT !.pc = "round"]

\* step 7: the Epicast round update
submit_round(s) ==
  IF s.update_round /\ ~s.test_mode
  THEN [s EXCEPT !.pc = "done", !.log = Append(@, Event("round", ""))]
  ELSE [s EXCEPT !.pc = "done"]

\* flusight.submit(email, password, filename, date, insane): the file is
\* loaded and, unless insane, sanity-checked; then it is uploaded, which the
\* server may refuse
flusight_submit(s, accepted) ==
  IF ~s.insane /\ s.file \in s.bad THEN SubRaise(s, "sanity_check")
  ELSE LET t == IF s.insane THEN s ELSE [s EXCEPT !.log = Append(@, Event("sane", s.file))]
       IN  IF accepted
           THEN [t EXCEPT !.pc = "done", !.log = Append(@, Event("upload", s.file))]
           ELSE SubRaise(t, "upload failed")

\* at most one file of a run fails the sanity check
BadFiles == {{}} \cup { {f} : f \in SubmitFiles }

InitSubmit ==
  /\ OldIdle
  /\ DbIdle
  /\ ErunIdle
  /\ AfrunIdle
  /\ UqIdle
  /\ PipeIdle
  /\ sub \in [ op : {"submit"}, run_ec : BOOLEAN, run_af : BOOLEAN, insane : BOOLEAN,
               do_store : BOOLEAN, do_email : BOOLEAN, do_upload : BOOLEAN,
               update_round : BOOLEAN, test_mode : BOOLEAN, file : {""},
               bad : BadFiles, pc : {"args"}, log : {<<>>}, raised : {""} ]
       \cup
             [ op : {"flusight"}, run_ec : {FALSE}, run_af : {FALSE}, insane : BOOLEAN,
               do_store : {FALSE}, do_email : {FALSE}, do_upload : {TRUE},
               update_round : {FALSE}, test_mode : {FALSE}, file : {"ec_reg", "af_sta"},
               bad : BadFiles, pc : {"flusight"}, log : {<<>>}, raised : {""} ]

SubStep(s) ==
  /\ sub' = s
  /\ UNCHANGED notSub

SubmitArgs == sub.pc = "args" /\ SubStep(submit_args(sub))

SubmitGenerate == sub.pc = "generate" /\ SubStep(submit_generate(sub))

SubmitSanity == sub.pc = "sanity" /\ SubStep(submit_sanity(sub))

SubmitStore ==
  /\ sub.pc = "store"
  /\ \E legacy_ok \in [{"ec", "af"} -> BOOLEAN] : SubStep(submit_store(sub, legacy_ok))

SubmitEmail == sub.pc = "email" /\ SubStep(submit_email(sub))

SubmitUpload == sub.pc = "upload" /\ SubStep(submit_upload(sub))

SubmitRound == sub.pc = "round" /\ SubStep(submit_round(sub))

FlusightSubmit ==
  /\ sub.pc = "flusight"
  /\ \E accepted \in BOOLEAN : SubStep(flusight_submit(sub, accepted))

NextSubmit ==
  \/ SubmitArgs
  \/ SubmitGenerate
  \/ SubmitSanity
  \/ SubmitStore
  \/ SubmitEmail
  \/ SubmitUpload
  \/ SubmitRound
  \/ FlusightSubmit

SpecSubmit == InitSubmit /\ [][NextSubmit]_vars

Outward == {"store", "email", "upload"}

\* event i of the log leaves the program
IsOutward(i) == sub.log[i].kind \in Outward

\* the file of event i passed a sanity check earlier in the run
CheckedBefore(i) ==
  \E j \in 1..(i - 1) : sub.log[j] = Event("sane", sub.log[i].file)

(* C21: unless the insane flag is set, no forecast is stored, emailed or   *)
(* uploaded before sanity_check has passed on it, and a sanity failure      *)
(* stops the run before any of those steps.                                 *)
C21_SanityBeforeOutput ==
  (sub.op \in {"submit", "flusight"} /\ ~sub.insane) =>
    /\ \A i \in 1..Len(sub.log) : IsOutward(i) => CheckedBefore(i)
    /\ sub.raised = "sanity_check" => \A i \in 1..Len(sub.log) : ~IsOutward(i)

C21_Witness ==
  /\ sub.op = "submit"
  /\ ~sub.insane
  /\ sub.pc = "done"
  /\ \E i \in 1..Len(sub.log) : sub.log[i] = Event("store", "ec")
  /\ \E i \in 1..Len(sub.log) : sub.log[i] = Event("email", "af_sta")

----------------------------------------------------------------------------
(* The COVID Database (src/covid/database.py); the calls on the connector  *)
(* return normally, as the mock connector of tests/covid/test_database.py   *)
(* does                                                                     *)

MaxDbCalls == 4

\* disconnect that commits whatever the flag
DisconnectAlwaysCommitMutant(d, commit) ==
  [d EXCEPT !.op = "disconnect", !.commit = commit,
            !.cursor_open = FALSE, !.connection_open = FALSE,
            !.commits = @ + 1,
            !.last = <<"cursor.close", "connection.commit", "connection.close">>]

\* Database.connect: a connection and a cursor on it
Database_connect(d) ==
  [d EXCEPT !.op = "connect", !.has_connection = TRUE,
            !.cursor_open = TRUE, !.connection_open = TRUE,
            !.last = <<"connect", "connection.cursor">>]

\* Database.disconnect(commit)
Database_disconnect(d, commit) ==
  [d EXCEPT !.op = "disconnect", !.commit = commit,
            !.cursor_open = FALSE, !.connection_open = FALSE,
            !.commits = IF commit THEN @ + 1 ELSE @,
            !.last = <<"cursor.close">>
                       \o (IF commit THEN <<"connection.commit">> ELSE <<>>)
                       \o <<"connection.close">>]

\* Database.get_user_predictions: one query on the cursor
Database_get_user_predictions(d) ==
  [d EXCEPT !.op = "get_user_predictions", !.last = <<"cursor.execute">>]

\* load_predictions: connect, query and, whether or not the query raised,
\* disconnect(False)
load_predictions_db(d, query_ok) ==
  LET c == Database_connect(d)
      q == IF query_ok THEN Database_get_user_predictions(c) ELSE c
      r == Database_disconnect(q, FALSE)
  IN  [r EXCEPT !.op = "load_predictions",
                !.last = c.last \o (IF query_ok THEN q.last ELSE <<"cursor.execute">>) \o r.last]

InitDatabase ==
  /\ OldIdle
  /\ SubIdle
  /\ ErunIdle
  /\ AfrunIdle
  /\ UqIdle
  /\ PipeIdle
  /\ db = [ op |-> "new", has_connection |-> FALSE, cursor_open |-> FALSE,
            connection_open |-> FALSE, commit |-> FALSE, commits |-> 0,
            last |-> <<>>, before |-> 0, calls |-> 0, log |-> <<>> ]

DbStep(d) ==
  /\ db' = [d EXCEPT !.calls = db.calls + 1, !.before = db.commits,
                      !.log = db.log \o d.last]
  /\ UNCHANGED notDb

DatabaseConnect ==
  /\ db.calls < MaxDbCalls
  /\ DbStep(Database_connect(db))

DatabaseDisconnect ==
  /\ db.calls < MaxDbCalls
  /\ db.has_connection
  /\ \E commit \in BOOLEAN : DbStep(Database_disconnect(db, commit))

DatabaseGetUserPredictions ==
  /\ db.calls < MaxDbCalls
  /\ db.cursor_open
  /\ DbStep(Database_get_user_predictions(db))

LoadPredictions ==
  /\ db.calls < MaxDbCalls
  /\ \E query_ok \in BOOLEAN : DbStep(load_predictions_db(db, query_ok))

NextDatabase ==
  \/ DatabaseConnect
  \/ DatabaseDisconnect
  \/ DatabaseGetUserPredictions
  \/ LoadPredictions

SpecDatabase == InitDatabase /\ [][NextDatabase]_vars

\* position of the call c in the calls of the last operation, 0 if absent
RECURSIVE PosFrom(_, _, _)
PosFrom(calls, c, k) ==
  IF k > Len(calls) THEN 0 ELSE IF calls[k] = c THEN k ELSE PosFrom(calls, c, k + 1)

CallPos(c) == PosFrom(db.last, c, 1)

NumCalls(c) == Cardinality({ k \in 1..Len(db.last) : db.last[k] = c })

(* C22: Database.disconnect(commit) always closes the cursor and then the  *)
(* connection, and commits the connection if and only if commit is true,    *)
(* the commit happening before the connection is closed; disconnect(False)  *)
(* never commits.                                                           *)
C22_DisconnectOrder ==
  /\ db.op = "disconnect" =>
       /\ NumCalls("cursor.close") = 1
       /\ NumCalls("connection.close") = 1
       /\ CallPos("cursor.close") < CallPos("connection.close")
       /\ ~db.cursor_open /\ ~db.connection_open
       /\ NumCalls("connection.commit") = (IF db.commit THEN 1 ELSE 0)
       /\ db.commits = db.before + (IF db.commit THEN 1 ELSE 0)
       /\ db.commit => CallPos("connection.commit") < CallPos("connection.close")
  /\ db.op = "load_predictions" =>
       /\ NumCalls("connection.commit") = 0
       /\ db.commits = db.before
       /\ CallPos("cursor.close") > 0
       /\ CallPos("cursor.close") < CallPos("connection.close")

C22_Witness ==
  /\ db.op = "disconnect"
  /\ db.commit
  /\ db.commits = 2
  /\ db.last = <<"cursor.close", "connection.commit", "connection.close">>

----------------------------------------------------------------------------
(* The Hybrid Epicast run (Submissions.run_epicast, src/main/submissions.py) *)

ErunLocations == <<"nat", "pa">>

ErunEpiweeks == {201841, 201842}

MaxEpicastUsers == 2

\* Epicast._forecast(region, epiweek) as far as the run sees it: the number
\* of users with a complete submission for the region on that epiweek
Epicast_num_users(e, region, epiweek) == e.users[<<region, epiweek>>]

\* Hybrid._forecast for the region at position k, called by
\* Forecaster.forecast with the issue: past and future draw for the epiweek
\* _forecast uses, the curves are spliced (which divides by the number of
\* future curves), then the callback update_epicast_df configures
\* forecast_weeks and forecast_wili with future._num_users
erun_hybrid_forecast(e) ==
  LET region == e.locations[e.k]
      n == Epicast_num_users(e, region, HybridEpiweek(e.issue))
  IN  IF n = 0
      THEN [e EXCEPT !.num_users = Some(n), !.pc = "failed", !.raised = "ZeroDivisionError"]
      ELSE [e EXCEPT !.num_users = Some(n), !.composed = @ \cup {region},
                     !.forecast_df = Some(n), !.callbacks = @ + 1, !.pc = "dists"]

\* the rest of the loop body of Forecaster.forecast: the distributions of
\* the region are built with self.forecast_weeks and self.forecast_wili
erun_build_dists(e) ==
  LET region == e.locations[e.k]
  IN  IF e.forecast_df = None
      THEN [e EXCEPT !.pc = "failed", !.raised = "TypeError"]
      ELSE [e EXCEPT !.used[region] = e.forecast_df,
                     !.k = @ + 1,
                     !.pc = IF e.k = Len(e.locations) THEN "done" ELSE "compose"]

InitErun ==
  /\ OldIdle
  /\ SubIdle
  /\ DbIdle
  /\ AfrunIdle
  /\ UqIdle
  /\ PipeIdle
  /\ erun \in [ op : {"run_epicast"},
                issue : ErunEpiweeks,
                locations : {ErunLocations},
                users : [{"nat", "pa"} \X ErunEpiweeks -> 0..MaxEpicastUsers],
                k : {1}, pc : {"compose"},
                num_users : {None}, forecast_df : {None},
                composed : {{}}, callbacks : {0},
                used : {[l \in {"nat", "pa"} |-> None]},
                raised : {""} ]

ErunHybridForecast ==
  /\ erun.op = "run_epicast"
  /\ erun.pc = "compose"
  /\ erun' = erun_hybrid_forecast(erun)
  /\ UNCHANGED notErun

ErunBuildDists ==
  /\ erun.op = "run_epicast"
  /\ erun.pc = "dists"
  /\ erun' = erun_build_dists(erun)
  /\ UNCHANGED notErun

NextErun ==
  \/ ErunHybridForecast
  \/ ErunBuildDists

SpecErun == InitErun /\ [][NextErun]_vars

\* the locations whose distributions have been built
DistsBuilt == { l \in {"nat", "pa"} : erun.used[l] # None }

(* C23: in a Hybrid Epicast run the callback runs, for every location,     *)
(* after that location's trajectories are composed and before any of its    *)
(* distributions are built, so the distribution functions used for a        *)
(* location are configured with the number of Epicast users found for that  *)
(* same location and issue, never the initial None and never the count of   *)
(* another location.                                                        *)
C23_CallbackPerLocation ==
  erun.op = "run_epicast" =>
    /\ DistsBuilt \subseteq erun.composed
    /\ erun.pc = "dists" => erun.callbacks = Cardinality(erun.composed)
    /\ \A l \in DistsBuilt :
         erun.used[l] = Some(Epicast_num_users(erun, l, erun.issue))

----------------------------------------------------------------------------
(* Forecasting one location after another (Archefilter._forecast and       *)
(* Epicast._forecast)                                                       *)

MaxAfCalls == 3

AfLocs == {"nat", "hhs1", "hhs2"}

AfEpiweeks == {201840, 201841}

\* Archefilter._forecast(region, epiweek): run(epiweek) builds self.process
\* from the data up to epiweek, for 'nat' only; the sample curves are drawn
\* from self.process, an attribute that does not exist before the first run.
\* The curves are represented by the region and the epiweek of the process
\* they are drawn from.
Archefilter_forecast(a, region, epiweek) ==
  LET process == IF region = "nat" THEN Some(epiweek) ELSE a.process
  IN  IF process = None
      THEN [a EXCEPT !.raised = "AttributeError", !.curves = None]
      ELSE [a EXCEPT !.process = process, !.raised = "",
                     !.curves = Some([region |-> region, epiweek |-> Val(process)])]

\* Epicast._forecast(region, epiweek): the pinned data and the submissions
\* are fetched for the region and the epiweek; self._num_users is overwritten
Epicast_forecast(a, region, epiweek) ==
  [a EXCEPT !.num_users = Some(<<region, epiweek>>), !.raised = "",
            !.curves = Some([region |-> region, epiweek |-> epiweek])]

InitAfrun ==
  /\ OldIdle
  /\ SubIdle
  /\ DbIdle
  /\ ErunIdle
  /\ UqIdle
  /\ PipeIdle
  /\ afrun \in [ op : {"new"}, kind : {"archefilter", "epicast"},
                 process : {None}, num_users : {None},
                 region : {""}, epiweek : {0},
                 raised : {""}, curves : {None}, history : {<<>>} ]

AfStep(a, region, epiweek) ==
  /\ afrun' = [a EXCEPT !.op = "_forecast", !.region = region, !.epiweek = epiweek,
                        !.history = Append(@, <<region, epiweek>>)]
  /\ UNCHANGED notAfrun

ArchefilterForecast ==
  /\ afrun.kind = "archefilter"
  /\ Len(afrun.history) < MaxAfCalls
  /\ \E region \in AfLocs, epiweek \in AfEpiweeks :
       AfStep(Archefilter_forecast(afrun, region, epiweek), region, epiweek)

EpicastForecast ==
  /\ afrun.kind = "epicast"
  /\ Len(afrun.history) < MaxAfCalls
  /\ \E region \in AfLocs, epiweek \in AfEpiweeks :
       AfStep(Epicast_forecast(afrun, region, epiweek), region, epiweek)

NextAfrun ==
  \/ ArchefilterForecast
  \/ EpicastForecast

SpecAfrun == InitAfrun /\ [][NextAfrun]_vars

(* C24: forecasting one location shares no mutable state with forecasting  *)
(* another: the ensemble produced for a location is the same whatever other *)
(* locations were forecast before it, in whatever order, and no location    *)
(* must be forecast first for another to succeed.                           *)
C24_LocationsIndependent ==
  afrun.op = "_forecast" =>
    /\ afrun.raised = ""
    /\ afrun.curves = Some([region |-> afrun.region, epiweek |-> afrun.epiweek])

----------------------------------------------------------------------------
(* Forecaster.Utils.smooth on its own *)

MaxSmoothLen == 3

MaxSmoothValue == 3

\* curves longer than the kernel: flat, and with all the mass at the ends
LongCurves ==
  { [k \in 1..12 |-> 1],
    [k \in 1..13 |-> IF k \in {1, 13} THEN 2 ELSE 0],
    [k \in 1..12 |-> IF k = 1 THEN 2 ELSE 0] }

SmoothCurves ==
  (SeqsUpTo(0..MaxSmoothValue, MaxSmoothLen) \ {<<>>}) \cup LongCurves

InitSmooth ==
  /\ TargetsIdle
  /\ ContainerIdle
  /\ ForecasterIdle
  /\ CovidIdle
  /\ TrainerIdle
  /\ MoreIdle
  /\ HybridIdle
  /\ dcall \in [op : {"none"}, curve : SmoothCurves]
  /\ dres = [raised |-> "none"]

\* Forecaster.Utils.smooth(curve, 1)
Smooth ==
  /\ dcall.op = "none"
  /\ \E r \in { smooth([nan |-> FALSE, num |-> dcall.curve, den |-> 1]) } :
       /\ dcall' = [dcall EXCEPT !.op = "smooth"]
       /\ dres' = [raised |-> "", nan |-> r.nan, num |-> r.num, den |-> r.den]
  /\ UNCHANGED notDist

NextSmooth == Smooth

SpecSmooth == InitSmooth /\ [][NextSmooth]_vars

\* the sums of the input and of the output, over the output's denominator
SmoothInSum == SumSeq(dcall.curve) * KernelDen

SmoothOutSum == SumSeq(dres.num)

----------------------------------------------------------------------------
(* The upload queue (src/uploads/upload_forecast.py).  The cursor is the   *)
(* default, unbuffered cursor of mysql.connector: while rows of the SELECT  *)
(* are unread, another execute on the connection raises InternalError       *)
(* ('Unread result found'); the row after the one returned is read ahead,   *)
(* so nothing is unread once the last row has been returned.                *)

MaxUploads == 3

UploadIds == 1..MaxUploads

\* the ids with status 0, in the order of the table
RECURSIVE PendingFrom(_, _)
PendingFrom(status, id) ==
  IF id > MaxUploads THEN <<>>
  ELSE (IF status[id] = 0 THEN <<id>> ELSE <<>>) \o PendingFrom(status, id + 1)

\* handle_upload(filename): load_submission, and -1 for any exception of it
handle_upload(load_ok) ==
  IF load_ok THEN [message |-> "looks ok", status |-> 1]
  ELSE [message |-> "failed to upload submission", status |-> 0 - 1]

\* main, up to the SELECT of the pending rows
upload_select(u) ==
  [u EXCEPT !.pc = "loop", !.cursor = PendingFrom(u.rows, 1)]

\* one turn of the loop of main: the next row is fetched, handle_upload is
\* called and the UPDATE is executed on the cursor that is being iterated
upload_row(u, load_ok) ==
  LET row_id == Head(u.cursor)
      unread == Tail(u.cursor)
      r == handle_upload(load_ok)
      t == [u EXCEPT !.attempted[row_id] = @ + 1]
  IN  IF unread # <<>>
      THEN [t EXCEPT !.pc = "failed", !.raised = "Unread result found", !.cursor = unread]
      ELSE [t EXCEPT !.work[row_id] = r.status, !.message[row_id] = r.message,
                     !.cursor = <<>>]

\* the loop has ended: cur.close(), cnx.commit(), cnx.close()
upload_cleanup(u) ==
  [u EXCEPT !.pc = "done", !.rows = u.work]

InitUploads ==
  /\ OldIdle
  /\ SubIdle
  /\ DbIdle
  /\ ErunIdle
  /\ AfrunIdle
  /\ PipeIdle
  /\ \E status \in [UploadIds -> {0, 1, 0 - 1}] :
       uq = [ op |-> "main", pc |-> "select", start |-> status, rows |-> status,
              work |-> status, message |-> [id \in UploadIds |-> ""],
              attempted |-> [id \in UploadIds |-> 0], cursor |-> <<>>, raised |-> "" ]

UploadSelect ==
  /\ uq.op = "main"
  /\ uq.pc = "select"
  /\ uq' = upload_select(uq)
  /\ UNCHANGED notUq

UploadRow ==
  /\ uq.op = "main"
  /\ uq.pc = "loop"
  /\ uq.cursor # <<>>
  /\ \E load_ok \in BOOLEAN : uq' = upload_row(uq, load_ok)
  /\ UNCHANGED notUq

UploadCleanup ==
  /\ uq.op = "main"
  /\ uq.pc = "loop"
  /\ uq.cursor = <<>>
  /\ uq' = upload_cleanup(uq)
  /\ UNCHANGED notUq

NextUploads ==
  \/ UploadSelect
  \/ UploadRow
  \/ UploadCleanup

SpecUploads == InitUploads /\ [][NextUploads]_vars

\* main has returned or has raised
UploadsEnded == uq.op = "main" /\ uq.pc \in {"done", "failed"}

PendingAtStart == { id \in UploadIds : uq.start[id] = 0 }

(* C26: the upload queue processor handles every pending upload: after     *)
(* upload_forecast.main() has run, each row of forecast_uploads that had    *)
(* status 0 when it started has been attempted exactly once and has status  *)
(* 1 or a negative error code with a message, so no row that was pending at *)
(* the start is left at status 0.                                           *)
C26_EveryPendingUploadHandled ==
  UploadsEnded =>
    \A id \in PendingAtStart :
      /\ uq.attempted[id] = 1
      /\ uq.rows[id] \in {1, 0 - 1, 0 - 2}
      /\ uq.message[id] # ""

----------------------------------------------------------------------------
(* ForecastLocation: a rejected set operation *)

SetOps == WeekSetOps \cup IliSetOps

\* the target a set operation writes
SetTargetOf(op) ==
  CASE op = "set_onset" -> "onset"
    [] op = "set_peakweek" -> "peakweek"
    [] op = "set_peak" -> "peak"
    [] OTHER -> op

(* C27: a rejected set operation leaves the location forecast unchanged:   *)
(* when set_onset, set_peakweek, set_peak or set_lookahead raises (wrong    *)
(* distribution length, sum not 1, negative value, invalid point, or onset  *)
(* on a non-region), no bin, 'none' value or point of any target has been   *)
(* modified; an accepted one modifies its own target only.                  *)
C27_RejectedSetChangesNothing ==
  scall.op \in SetOps =>
    /\ scall.raised # "" => forecasts[scall.location] = scall.before
    /\ \A t \in DOMAIN scall.before.data :
         t # SetTargetOf(scall.op) =>
           forecasts[scall.location].data[t] = scall.before.data[t]

C27_Witness ==
  /\ scall.op = "set_peakweek"
  /\ scall.raised = "weekly point prediction not in [1, 53)"
  /\ scall.before.data["peakweek"].set
  /\ scall.d.dist # scall.before.data["peakweek"].dist

----------------------------------------------------------------------------
(* Baseline.open and the state locations *)

\* the exceptions of a failed data fetch
DataFailures == {"Epidata", "not enough data"}

BaselineOpened == trcall.op = "open" /\ trainer.kind = "baseline"

(* C28: after Baseline.open(), every location in the forecaster's location *)
(* list has trained statistics, whatever the order of the list and whether  *)
(* or not it contains 'hhs4': a 2-letter state location is trained          *)
(* successfully even when it is listed before 'hhs4' or when 'hhs4' is not  *)
(* listed (the data fetches of the other locations succeeding).             *)
C28_OpenTrainsEveryLocation ==
  (BaselineOpened /\ trcall.raised \notin DataFailures) =>
    /\ trcall.raised = ""
    /\ \A k \in 1..Len(trainer.locations) : trainer.stats[trainer.locations[k]] # None

----------------------------------------------------------------------------
(* The COVID pipeline (src/covid/generate_forecast.py, main) *)

\* the location codes of the run, in sorted order
PipeLocs == <<"nat", "pa">>

\* a filter over a sequence
RECURSIVE SelectFrom(_, _, _)
SelectFrom(seq, keep, k) ==
  IF k > Len(seq) THEN <<>>
  ELSE (IF seq[k] \in keep THEN <<seq[k]>> ELSE <<>>) \o SelectFrom(seq, keep, k + 1)

\* load_predictions: location_codes is the sorted set of the locations of
\* the rows, user_predictions the series of each user by location; a series
\* is represented by whether it has the expected length
pipe_load_predictions(p) ==
  LET present == { l \in DOMAIN p.rows : p.rows[l] # <<>> }
  IN  [p EXCEPT !.pc = "drop",
                !.location_codes = SelectFrom(PipeLocs, present, 1),
                !.user_predictions = [l \in present |-> p.rows[l]]]

\* drop_invalid_predictions: a series of the wrong length is deleted, and a
\* location left without series is deleted from user_predictions
drop_invalid_predictions(up) ==
  LET valid == [l \in DOMAIN up |-> SelectFrom(up[l], {TRUE}, 1)]
  IN  [l \in { x \in DOMAIN up : valid[x] # <<>> } |-> valid[l]]

\* main: the epiweek is required; then the predictions are loaded
pipe_start(p) ==
  IF ~p.has_epiweek THEN [p EXCEPT !.pc = "failed", !.raised = "epiweek is required"]
  ELSE pipe_load_predictions(p)

pipe_drop(p) ==
  [p EXCEPT !.pc = "forecast", !.user_predictions = drop_invalid_predictions(@)]

\* what EpicastCore.forecast is handed for a location: the wILI is there, a
\* user's curve is the wILI followed by their series, 'nat' has a baseline
PipeCall(p, location) ==
  LET has_users == location \in DOMAIN p.user_predictions
      curve == [i \in 1..CovidCurveLen |-> IF i \in 11..13 THEN 100 ELSE 300 + i]
  IN  [ op |-> "forecast", fetched |-> TRUE, has_users |-> has_users,
        samples |-> IF has_users
                    THEN [k \in 1..Len(p.user_predictions[location]) |-> curve]
                    ELSE <<>>,
        baseline |-> IF location = "nat" THEN Some(CovidBaseline) ELSE None,
        current_week |-> 4, uniform_weight |-> 1 ]

\* one turn of the loop of main: EpicastCore.forecast for the next location
pipe_forecast(p) ==
  LET location == p.location_codes[p.k]
      has_users == location \in DOMAIN p.user_predictions
      q == [p EXCEPT !.lookups = Append(@, [location |-> location, present |-> has_users])]
  IN  Only({ IF r.raised # "" THEN [q EXCEPT !.pc = "failed", !.raised = r.raised]
             ELSE [q EXCEPT !.forecasts = @ \cup {location}, !.k = @ + 1] :
             r \in { EpicastCore_forecast(PipeCall(p, location)) } })

\* materialize_bins and generate_csv
pipe_finish(p) == [p EXCEPT !.pc = "done"]

InitPipe ==
  /\ OldIdle
  /\ SubIdle
  /\ DbIdle
  /\ ErunIdle
  /\ AfrunIdle
  /\ UqIdle
  /\ pipe \in [ op : {"main"}, pc : {"start"}, has_epiweek : BOOLEAN,
                rows : [{"nat", "pa"} -> SeqsUpTo(BOOLEAN, MaxUsers)],
                location_codes : {<<>>}, user_predictions : {<<>>},
                k : {1}, lookups : {<<>>}, forecasts : {{}}, raised : {""} ]

PipeStep(p) ==
  /\ pipe' = p
  /\ UNCHANGED notPipe

PipeStart == pipe.op = "main" /\ pipe.pc = "start" /\ PipeStep(pipe_start(pipe))

PipeDrop == pipe.op = "main" /\ pipe.pc = "drop" /\ PipeStep(pipe_drop(pipe))

PipeForecast ==
  /\ pipe.op = "main"
  /\ pipe.pc = "forecast"
  /\ pipe.k <= Len(pipe.location_codes)
  /\ PipeStep(pipe_forecast(pipe))

PipeFinish ==
  /\ pipe.op = "main"
  /\ pipe.pc = "forecast"
  /\ pipe.k > Len(pipe.location_codes)
  /\ PipeStep(pipe_finish(pipe))

NextPipe ==
  \/ PipeStart
  \/ PipeDrop
  \/ PipeForecast
  \/ PipeFinish

SpecPipe == InitPipe /\ [][NextPipe]_vars

(* C29: in the COVID pipeline every location code handed to                *)
(* EpicastCore.forecast still has at least one user prediction series of    *)
(* the expected length: a location whose series are all dropped by          *)
(* drop_invalid_predictions is not forecast, so EpicastCore.forecast never  *)
(* looks up a location that is absent from user_predictions.                *)
C29_ForecastLocationsHaveUsers ==
  pipe.op = "main" =>
    /\ \A i \in 1..Len(pipe.lookups) :
         /\ pipe.lookups[i].present
         /\ TRUE \in Range(pipe.rows[pipe.lookups[i].location])
    /\ pipe.raised # "KeyError"

----------------------------------------------------------------------------
(* Forecast: the locations of a new Forecast (add_forecast and             *)
(* get_or_create_forecast in any order)                                     *)

MaxAddOps == 4

AddLocs == {"nat", "pa", "dc"}

\* Forecast.__init__: no forecasts, no locations
InitLocations ==
  /\ TargetsIdle
  /\ DistIdle
  /\ HybridIdle
  /\ ForecasterIdle
  /\ CovidIdle
  /\ TrainerIdle
  /\ MoreIdle
  /\ forecasts = <<>>
  /\ ordered_locations = <<>>
  /\ sres = "none"
  /\ ops = 0
  /\ scall = NoCall

LocationsStep(op, location, fl, F, returned) ==
  /\ forecasts' = F.forecasts
  /\ ordered_locations' = F.ordered_locations
  /\ scall' = [ op |-> op, location |-> location, d |-> fl, raised |-> "",
                before |-> TheForecast, returned |-> returned ]
  /\ ops' = ops + 1
  /\ UNCHANGED sres
  /\ UNCHANGED notContainer

\* forecast.add_forecast(fl), fl new or filled in
AddForecast ==
  /\ ops < MaxAddOps
  /\ \E location \in AddLocs :
       \E fl \in {ForecastLocation_init(location), FilledLocation(location)} :
         LocationsStep("add_forecast", location, fl, add_forecast(TheForecast, fl), fl)

\* forecast.get_or_create_forecast(location), the location stored or not
GetOrCreateForecastCall ==
  /\ ops < MaxAddOps
  /\ \E location \in AddLocs :
       \E F \in { get_or_create_forecast(TheForecast, location) } :
         LocationsStep("get_or_create_forecast", location, None, F, F.forecasts[location])

NextLocations ==
  \/ AddForecast
  \/ GetOrCreateForecastCall

SpecLocations == InitLocations /\ [][NextLocations]_vars

NoDuplicates(seq) == \A i, j \in DOMAIN seq : seq[i] = seq[j] => i = j

\* the Forecast before the last call
Before == scall.before

WasStored == scall.location \in DOMAIN Before.forecasts

\* the stored forecasts of the other locations are the ones before the call
OthersKept ==
  \A l \in DOMAIN Before.forecasts :
    l # scall.location => (l \in DOMAIN forecasts /\ forecasts[l] = Before.forecasts[l])

(* C30: after any sequence of add_forecast and get_or_create_forecast      *)
(* calls the ordered location list has no duplicates and holds exactly the  *)
(* locations that have a stored forecast, in order of first insertion;      *)
(* adding a forecast for a location already present replaces the stored     *)
(* forecast without changing the order, and get_or_create_forecast on an    *)
(* existing location returns the stored forecast without creating or        *)
(* modifying anything.                                                      *)
C30_OrderedLocations ==
  /\ NoDuplicates(ordered_locations)
  /\ Range(ordered_locations) = DOMAIN forecasts
  /\ scall.op \in {"add_forecast", "get_or_create_forecast"} =>
       /\ ordered_locations =
            IF WasStored THEN Before.ordered_locations
            ELSE Append(Before.ordered_locations, scall.location)
       /\ OthersKept
       /\ scall.op = "add_forecast" => forecasts[scall.location] = scall.d
       /\ (scall.op = "get_or_create_forecast" /\ WasStored) =>
            /\ forecasts = Before.forecasts
            /\ scall.returned = Before.forecasts[scall.location]
       /\ (scall.op = "get_or_create_forecast" /\ ~WasStored) =>
            /\ forecasts[scall.location] = ForecastLocation_init(scall.location)
            /\ scall.returned = forecasts[scall.location]

C30_Witness ==
  /\ scall.op = "add_forecast"
  /\ WasStored
  /\ Len(ordered_locations) = 3
  /\ ordered_locations[1] = scall.location
  /\ forecasts[scall.location] # Before.forecasts[scall.location]

====
